---- MODULE Spec2Model ----
(***************************************************************************)
(* Model of the selection-expression evaluator of                          *)
(* src/gromacs/selection/evaluate.cpp.  A compiled selection tree is a     *)
(* table of nodes (t_selelem); the evaluators are operators that take the  *)
(* evaluation state and return the state after the call, exactly as the    *)
(* C++ functions mutate the tree, the value storage and the memory pool.   *)
(* Exceptions are the field err of the state: once it is set, the rest of  *)
(* the function body is skipped and only the destructors of the scoped     *)
(* guards run.                                                             *)
(***************************************************************************)
EXTENDS Integers, Sequences, FiniteSets, TLC

VARIABLES sel, mem, pool, err, log, ub, call, frame, hist, junk, run, help, guard

vars == <<sel, mem, pool, err, log, ub, call, frame, hist, junk, run, help, guard>>

(* ------------------------------ bounds --------------------------------- *)
\* Atoms are 0 .. MaxAtom-1.
MaxAtom == 3
\* Largest number of children of a boolean node.
MaxChildren == 2
\* Largest number of frames explored.
MaxFrames == 2

Atoms == 0 .. (MaxAtom - 1)

(* ------------------------- index groups -------------------------------- *)
\* An index group is the sequence index[0 .. isize-1]; NULL is the null
\* group pointer an evaluator may receive.
NULL == <<-1>>

IsSorted(s) == \A i \in 1 .. (Len(s) - 1) : s[i] < s[i + 1]

SeqSet(s) == {s[i] : i \in 1 .. Len(s)}

RECURSIVE AsGroup(_)
AsGroup(S) ==
    IF S = {} THEN <<>>
    ELSE LET m == CHOOSE x \in S : \A y \in S : x <= y
         IN  <<m>> \o AsGroup(S \ {m})

Groups == {AsGroup(S) : S \in SUBSET Atoms}

gmx_ana_index_copy(src) == src

gmx_ana_index_intersection(a, b) == SelectSeq(a, LAMBDA x : x \in SeqSet(b))

gmx_ana_index_difference(a, b) == SelectSeq(a, LAMBDA x : x \notin SeqSet(b))

gmx_ana_index_merge(a, b) == AsGroup(SeqSet(a) \cup SeqSet(b))

\* dest1 receives the part of src present in g, dest2 the part absent; dest2
\* lives in dest1's storage, directly behind dest1.
gmx_ana_index_partition(src, g) ==
    [dest1 |-> gmx_ana_index_intersection(src, g), dest2 |-> gmx_ana_index_difference(src, g)]

gmx_ana_index_sort(g) == SortSeq(g, <)

gmx_ana_index_set(isize, index) == SubSeq(index, 1, isize)

(* --------------------------- value storage ----------------------------- *)
\* Pointers: 0 is the null pointer, n > 0 is the storage node n owns, -k is
\* the k-th block of the memory pool.
Group(st, n) == st.mem[st.sel[n].ptr]

SetGroup(st, n, g) == [st EXCEPT !.mem[st.sel[n].ptr] = g]

IsVector(t) == t \in {"INT_VALUE", "REAL_VALUE", "STR_VALUE"}

\* v.u.i[k] (k from 0) of the storage p points to; a read outside the
\* storage is undefined and yields whatever the build finds there.
ReadAt(st, p, k) ==
    IF p \in DOMAIN st.mem /\ k >= 0 /\ k < Len(st.mem[p]) THEN st.mem[p][k + 1] ELSE st.junk

ReadOk(st, p, k) == p \in DOMAIN st.mem /\ k >= 0 /\ k < Len(st.mem[p])

WriteAt(st, p, k, x) ==
    IF p \in DOMAIN st.mem /\ k >= 0 /\ k < Len(st.mem[p])
    THEN [st EXCEPT !.mem[p][k + 1] = x]
    ELSE [st EXCEPT !.ub = TRUE]

_gmx_selvalue_setstore(st, n, p) ==
    [st EXCEPT !.sel[n].ptr = p, !.sel[n].nalloc = IF p # 0 THEN -1 ELSE 0]

_gmx_selvalue_setstore_alloc(st, n, p, nalloc) ==
    [st EXCEPT !.sel[n].ptr = p, !.sel[n].nalloc = nalloc]

Throw(st, e) == [st EXCEPT !.err = e]

Ok(st) == st.err = "none"

(* ----------------------------- memory pool ----------------------------- *)
\* The pool is a stack of reservations; a vector block is fresh,
\* uninitialised memory, a group block is the index array of a group (or
\* of the positions) that the node itself keeps.
_gmx_sel_mempool_alloc(st, count) ==
    LET p == -(Len(st.pool) + 1)
    IN  [st EXCEPT !.pool = Append(@, [ptr |-> p, count |-> count]),
                   !.mem = (p :> [k \in 1 .. count |-> st.junk]) @@ @]

_gmx_sel_mempool_free(st) ==
    LET p == st.pool[Len(st.pool)].ptr
    IN  [st EXCEPT !.pool = SubSeq(@, 1, Len(@) - 1),
                   !.mem = [q \in (DOMAIN @) \ {p} |-> @[q]]]

_gmx_selelem_mempool_reserve(st, n, count) ==
    IF ~st.sel[n].mempool THEN st
    ELSE IF ~IsVector(st.sel[n].vtype)
         THEN [st EXCEPT !.pool = Append(@, [ptr |-> st.sel[n].ptr, count |-> count]),
                         !.mem[st.sel[n].ptr] = <<>>]
         ELSE LET s1 == _gmx_sel_mempool_alloc(st, count)
              IN  [s1 EXCEPT !.sel[n].ptr = s1.pool[Len(s1.pool)].ptr]

_gmx_selelem_mempool_release(st, n) ==
    IF ~st.sel[n].mempool THEN st
    ELSE IF ~IsVector(st.sel[n].vtype)
         THEN [st EXCEPT !.pool = SubSeq(@, 1, Len(@) - 1),
                         !.mem[st.sel[n].ptr] = <<>>]
         ELSE _gmx_selvalue_setstore(_gmx_sel_mempool_free(st), n, 0)

\* The log entry of an invocation: who, what, over which group, the number
\* of pool reservations active at that moment, and the cached group the
\* node has at that moment.
Note(st, n, what, g) ==
    [st EXCEPT !.log = Append(@, [node |-> n, what |-> what, g |-> g, pool |-> Len(st.pool),
                                  cgrp |-> IF n \in DOMAIN st.sel THEN st.sel[n].cgrp
                                           ELSE <<>>])]

\* MempoolSelelemReserver: reserve() and the destructor.
MempoolSelelemReserver_reserve(st, n, count) ==
    _gmx_selelem_mempool_reserve(Note(st, n, "reserve", NULL), n, count)

\* Mutant: the destructor releases nothing.
MempoolSelelemReserver_leak(st, n) == st

MempoolSelelemReserver_dtor(st, n) == _gmx_selelem_mempool_release(st, n)

\* MempoolGroupReserver on a local group: only the reservation is state.
MempoolGroupReserver_reserve(st, count) ==
    [st EXCEPT !.pool = Append(@, [ptr |-> 0, count |-> count])]

MempoolGroupReserver_dtor(st, reserved) ==
    IF reserved THEN [st EXCEPT !.pool = SubSeq(@, 1, Len(@) - 1)] ELSE st

\* SelelemTemporaryValueAssigner: assign() returns the state; the saved
\* pointer and capacity are read by the caller before the call.  A failed
\* GMX_RELEASE_ASSERT ends the program.
\* Mutant: assign() without the check of the value types.
SelelemTemporaryValueAssigner_assign_unchecked(st, n, vsource) ==
    _gmx_selvalue_setstore(st, n, st.sel[vsource].ptr)

SelelemTemporaryValueAssigner_assign(st, n, vsource) ==
    IF st.sel[n].vtype # st.sel[vsource].vtype
    THEN Throw(st, "Abort")
    ELSE _gmx_selvalue_setstore(st, n, st.sel[vsource].ptr)

\* Mutant: the destructor leaves the node pointing at the lent storage.
SelelemTemporaryValueAssigner_forget(st, n, old_ptr, old_nalloc) == st

\* Mutant: the destructor restores the pointer with _gmx_selvalue_setstore,
\* which marks the storage as borrowed instead of restoring the capacity.
SelelemTemporaryValueAssigner_dtor_store(st, n, old_ptr, old_nalloc) ==
    _gmx_selvalue_setstore(st, n, old_ptr)

SelelemTemporaryValueAssigner_dtor(st, n, old_ptr, old_nalloc) ==
    _gmx_selvalue_setstore_alloc(st, n, old_ptr, old_nalloc)

(* --------------------------- method plugins ---------------------------- *)
\* A method plugin is an external collaborator: its update callback is a
\* per-atom predicate (group-valued: the atoms of g that lie in S) or a
\* per-atom function (vector-valued: f[i] for every atom i of g, one value
\* f[0] for a SINGLE_VAL node).  The callback st.fail names throws.
MethodValues(st, n, g) ==
    IF "SEL_SINGLEVAL" \in st.sel[n].flags
    THEN <<st.sel[n].f[0]>>
    ELSE [k \in 1 .. Len(g) |-> st.sel[n].f[g[k]]]

WriteValues(st, n, vals) ==
    LET p == st.sel[n].ptr
    IN  IF p \in DOMAIN st.mem /\ Len(vals) <= Len(st.mem[p])
        THEN [st EXCEPT !.mem[p] = [k \in 1 .. Len(@) |-> IF k <= Len(vals) THEN vals[k] ELSE @[k]],
                        !.sel[n].nr = Len(vals)]
        ELSE [st EXCEPT !.ub = TRUE]

\* The atoms a group-valued method accepts in the frame st.fr: those of S
\* that the frame has not moved out of it (frame 0 moves none out).
MethodAccepts(st, n) == {a \in st.sel[n].S : a >= st.fr}

MethodCallback(st, n, what, g) ==
    LET s1 == Note(st, n, what, g)
    IN  IF st.fail = <<n, what>> THEN Throw(s1, "Plugin")
        ELSE IF ~IsVector(st.sel[n].vtype)
             THEN SetGroup(s1, n, gmx_ana_index_intersection(g, AsGroup(MethodAccepts(st, n))))
             ELSE WriteValues(s1, n, MethodValues(st, n, g))

\* The position calculation engine computes one position per atom of g.
gmx_ana_poscalc_update(st, n, g) == g

InitFrameCallback(st, n) ==
    LET s1 == Note(st, n, "init_frame", NULL)
    IN  IF st.fail = <<n, "init_frame">> THEN Throw(s1, "Plugin") ELSE s1

(* ------------------------- command-line help --------------------------- *)
\* The output file is the sequence of the lines written to it; a line is
\* a tuple of its parts.
File_writeLine(h, line) == [h EXCEPT !.file = Append(@, line)]

\* TextTableFormatter::formatRow as written to the file by writer w: the
\* column titles before the first row, then the row of option o.
formatRow(h, w, o) ==
    LET s1 == IF w \in h.didOutput THEN h ELSE File_writeLine(h, <<"header", w>>)
    IN  [File_writeLine(s1, <<"row", w, o.name>>) EXCEPT !.didOutput = @ \cup {w}]

RECURSIVE writeValues(_, _, _)
writeValues(h, o, i) ==
    IF i >= o.valueCount THEN h
    ELSE writeValues(File_writeLine(h, <<"value", o.name, i>>), o, i + 1)

DescriptionWriter_visitSubSection(h, section) ==
    IF section.description # ""
    THEN LET s1 == IF section.title # ""
                   THEN File_writeLine(File_writeLine(h, <<section.title>>), <<>>)
                   ELSE h
         IN  File_writeLine(File_writeLine(s1, <<"text", section.description>>), <<>>)
    ELSE h

FileParameterWriter_visitOptionType(h, o) ==
    IF o.type = "file" THEN formatRow(h, "FileParameterWriter", o) ELSE h

ParameterWriter_visitOption(h, o) ==
    IF o.type \in {"file", "selection"} \/ (~h.bShowHidden /\ o.hidden) THEN h
    ELSE formatRow(h, "ParameterWriter", o)

SelectionParameterWriter_visitOption(h, o) ==
    IF o.type # "selection" THEN h
    ELSE writeValues(formatRow(h, "SelectionParameterWriter", o), o, 0)

visitOption(h, w, o) ==
    CASE w = "FileParameterWriter" -> FileParameterWriter_visitOptionType(h, o)
      [] w = "ParameterWriter" -> ParameterWriter_visitOption(h, o)
      [] w = "SelectionParameterWriter" -> SelectionParameterWriter_visitOption(h, o)

\* iterator.acceptOptions(this)
RECURSIVE acceptOptions(_, _, _)
acceptOptions(h, w, i) ==
    IF i > Len(h.options.opts) THEN h
    ELSE acceptOptions(visitOption(h, w, h.options.opts[i]), w, i + 1)

\* A writer is constructed, visits the options and a blank line follows
\* if it wrote anything.
writeSection(h, w) ==
    LET s1 == acceptOptions([h EXCEPT !.didOutput = @ \ {w}], w, 1)
    IN  IF w \in s1.didOutput THEN File_writeLine(s1, <<>>) ELSE s1

writeBody(h) ==
    LET s1 == IF h.bShowDescriptions
              THEN DescriptionWriter_visitSubSection(
                       File_writeLine(File_writeLine(File_writeLine(h, <<"DESCRIPTION">>),
                                                     <<"-----------">>), <<>>),
                       h.options)
              ELSE h
    IN  writeSection(writeSection(writeSection(s1, "FileParameterWriter"), "ParameterWriter"),
                     "SelectionParameterWriter")

\* Mutant: the output format is looked at once the description is out.
writeHelp_late(h, outputFormat) ==
    IF outputFormat # "eHelpOutputFormat_Console"
    THEN [(IF h.bShowDescriptions
           THEN File_writeLine(File_writeLine(File_writeLine(h, <<"DESCRIPTION">>),
                                              <<"-----------">>), <<>>)
           ELSE h) EXCEPT !.err = "NotImplemented"]
    ELSE writeBody([h EXCEPT !.err = "none"])

\* CommandLineHelpWriter::writeHelp
writeHelp(h, outputFormat) ==
    IF outputFormat # "eHelpOutputFormat_Console"
    THEN [h EXCEPT !.err = "NotImplemented"]
    ELSE writeBody([h EXCEPT !.err = "none"])

(* ------------------------------ evaluators ----------------------------- *)
RECURSIVE Evaluate(_, _, _)
RECURSIVE method_params_loop(_, _, _)
RECURSIVE and_loop(_, _, _)
RECURSIVE or_loop(_, _, _, _, _, _)
RECURSIVE evaluate_children_loop(_, _, _)
RECURSIVE subexprref_gather_loop(_, _, _, _, _)
RECURSIVE _gmx_sel_evaluate_arithmetic(_, _, _)

\* _gmx_sel_evaluate_children: every child that has an evaluator, over g.
evaluate_children_loop(st, child, g) ==
    IF child = 0 \/ ~Ok(st) THEN st
    ELSE LET s1 == IF st.sel[child].evaluate # "none" THEN Evaluate(st, child, g) ELSE st
         IN  evaluate_children_loop(s1, st.sel[child].next, g)

_gmx_sel_evaluate_children(st, n, g) == evaluate_children_loop(st, st.sel[n].child, g)

_gmx_sel_evaluate_static(st, n, g) ==
    SetGroup(st, n, gmx_ana_index_intersection(st.sel[n].cgrp, g))

\* Mutant: a parameter evaluated with the null group is not marked.
method_params_loop_nomark(st, child, g) ==
    IF child = 0 \/ ~Ok(st) THEN st
    ELSE LET c == st.sel[child]
             s1 == IF c.evaluate # "none" /\ "SEL_EVALFRAME" \notin c.flags
                   THEN IF "SEL_ATOMVAL" \in c.flags
                        THEN Evaluate(st, child, g)
                        ELSE Evaluate(st, child, NULL)
                   ELSE st
         IN  method_params_loop(s1, c.next, g)

method_params_loop(st, child, g) ==
    IF child = 0 \/ ~Ok(st) THEN st
    ELSE LET c == st.sel[child]
             s1 == IF c.evaluate # "none" /\ "SEL_EVALFRAME" \notin c.flags
                   THEN IF "SEL_ATOMVAL" \in c.flags
                        THEN Evaluate(st, child, g)
                        ELSE Evaluate([st EXCEPT !.sel[child].flags = @ \cup {"SEL_EVALFRAME"}],
                                      child, NULL)
                   ELSE st
         IN  method_params_loop(s1, c.next, g)

_gmx_sel_evaluate_method_params(st, n, g) == method_params_loop(st, st.sel[n].child, g)

\* Mutant: SEL_INITFRAME is left set.
_gmx_sel_evaluate_method_noclear(st, n, g) ==
    LET InitFrame(s1) ==
            IF Ok(s1) /\ "SEL_INITFRAME" \in s1.sel[n].flags
            THEN InitFrameCallback(s1, n)
            ELSE s1
        Update(s2) ==
            IF ~Ok(s2) THEN s2
            ELSE IF s2.sel[n].pc
                 THEN MethodCallback(s2, n, "pupdate", gmx_ana_poscalc_update(s2, n, g))
                 ELSE MethodCallback(s2, n, "update", g)
    IN  Update(InitFrame(_gmx_sel_evaluate_method_params(st, n, g)))

\* Mutant: init_frame is called before the parameters are evaluated.
_gmx_sel_evaluate_method_initfirst(st, n, g) ==
    LET InitFrame(s1) ==
            IF Ok(s1) /\ "SEL_INITFRAME" \in s1.sel[n].flags
            THEN InitFrameCallback([s1 EXCEPT !.sel[n].flags = @ \ {"SEL_INITFRAME"}], n)
            ELSE s1
        Update(s2) ==
            IF ~Ok(s2) THEN s2
            ELSE IF s2.sel[n].pc
                 THEN MethodCallback(s2, n, "pupdate", gmx_ana_poscalc_update(s2, n, g))
                 ELSE MethodCallback(s2, n, "update", g)
        Params(s3) == IF Ok(s3) THEN _gmx_sel_evaluate_method_params(s3, n, g) ELSE s3
    IN  Update(Params(InitFrame(st)))

_gmx_sel_evaluate_method(st, n, g) ==
    LET InitFrame(s1) ==
            IF Ok(s1) /\ "SEL_INITFRAME" \in s1.sel[n].flags
            THEN InitFrameCallback([s1 EXCEPT !.sel[n].flags = @ \ {"SEL_INITFRAME"}], n)
            ELSE s1
        Update(s2) ==
            IF ~Ok(s2) THEN s2
            ELSE IF s2.sel[n].pc
                 THEN MethodCallback(s2, n, "pupdate", gmx_ana_poscalc_update(s2, n, g))
                 ELSE MethodCallback(s2, n, "update", g)
    IN  Update(InitFrame(_gmx_sel_evaluate_method_params(st, n, g)))

\* Mutant: the position-update callback is given the atom group.
_gmx_sel_evaluate_modifier_group(st, n, g) ==
    LET child == st.sel[n].child
        InitFrame(s1) ==
            IF Ok(s1) /\ "SEL_INITFRAME" \in s1.sel[n].flags
            THEN InitFrameCallback([s1 EXCEPT !.sel[n].flags = @ \ {"SEL_INITFRAME"}], n)
            ELSE s1
        Update(s2) ==
            IF ~Ok(s2) THEN s2
            ELSE IF child = 0 THEN Throw(s2, "Abort")
            ELSE IF s2.sel[child].vtype # "POS_VALUE" THEN Throw(s2, "NotImplemented")
            ELSE MethodCallback(s2, n, "pupdate", g)
    IN  Update(InitFrame(_gmx_sel_evaluate_method_params(st, n, g)))

_gmx_sel_evaluate_modifier(st, n, g) ==
    LET child == st.sel[n].child
        InitFrame(s1) ==
            IF Ok(s1) /\ "SEL_INITFRAME" \in s1.sel[n].flags
            THEN InitFrameCallback([s1 EXCEPT !.sel[n].flags = @ \ {"SEL_INITFRAME"}], n)
            ELSE s1
        Update(s2) ==
            IF ~Ok(s2) THEN s2
            ELSE IF child = 0 THEN Throw(s2, "Abort")
            ELSE IF s2.sel[child].vtype # "POS_VALUE" THEN Throw(s2, "NotImplemented")
            ELSE MethodCallback(s2, n, "pupdate", Group(s2, child))
    IN  Update(InitFrame(_gmx_sel_evaluate_method_params(st, n, g)))

\* Mutant: the value is the child's value instead of its complement.
_gmx_sel_evaluate_not_copy(st, n, g) ==
    LET child == st.sel[n].child
        Value(s2) == IF Ok(s2) THEN SetGroup(s2, n, Group(s2, child)) ELSE s2
    IN  MempoolSelelemReserver_dtor(
            Value(Evaluate(MempoolSelelemReserver_reserve(st, child, Len(g)), child, g)), child)

_gmx_sel_evaluate_not(st, n, g) ==
    LET child == st.sel[n].child
        Value(s2) ==
            IF Ok(s2) THEN SetGroup(s2, n, gmx_ana_index_difference(g, Group(s2, child))) ELSE s2
    IN  MempoolSelelemReserver_dtor(
            Value(Evaluate(MempoolSelelemReserver_reserve(st, child, Len(g)), child, g)), child)

\* A null child pointer or a null evaluate pointer that the code
\* dereferences: the call never returns normally.
Crash(st) == [st EXCEPT !.err = "Crash", !.ub = TRUE]

\* Mutant: the node's group starts as g, not as the first child's value.
_gmx_sel_evaluate_and_whole(st, n, g) ==
    LET c0 == st.sel[n].child
        child == IF st.sel[c0].evaluate = "none" THEN st.sel[c0].next ELSE c0
        Copy(s2) == IF Ok(s2) THEN SetGroup(s2, n, gmx_ana_index_copy(g)) ELSE s2
        Rest(s4) == IF Ok(s4) THEN and_loop(s4, n, s4.sel[child].next) ELSE s4
    IN  IF child = 0 THEN Crash(st)
        ELSE Rest(MempoolSelelemReserver_dtor(
                      Copy(Evaluate(MempoolSelelemReserver_reserve(st, child, Len(g)), child, g)),
                      child))

_gmx_sel_evaluate_and(st, n, g) ==
    LET c0 == st.sel[n].child
        child == IF st.sel[c0].evaluate = "none" THEN st.sel[c0].next ELSE c0
        Copy(s2) == IF Ok(s2) THEN SetGroup(s2, n, gmx_ana_index_copy(Group(s2, child))) ELSE s2
        Rest(s4) == IF Ok(s4) THEN and_loop(s4, n, s4.sel[child].next) ELSE s4
    IN  IF child = 0 THEN Crash(st)
        ELSE Rest(MempoolSelelemReserver_dtor(
                      Copy(Evaluate(MempoolSelelemReserver_reserve(st, child, Len(g)), child, g)),
                      child))

\* Mutant: the loop stops while the running intersection is non-empty.
and_loop_stops(st, n, child) == st

\* Mutant: the loop runs over every remaining child.
and_loop_all(st, n, child) ==
    LET Intersect(s2) ==
            IF Ok(s2)
            THEN SetGroup(s2, n, gmx_ana_index_intersection(Group(s2, n), Group(s2, child)))
            ELSE s2
        Rest(s4) == IF Ok(s4) THEN and_loop(s4, n, s4.sel[child].next) ELSE s4
    IN  IF child = 0 THEN st
        ELSE Rest(MempoolSelelemReserver_dtor(
                      Intersect(Evaluate(MempoolSelelemReserver_reserve(st, child, Len(Group(st, n))),
                                         child, Group(st, n))),
                      child))

\* while (child && sel->v.u.g->isize > 0)
and_loop(st, n, child) ==
    LET Intersect(s2) ==
            IF Ok(s2)
            THEN SetGroup(s2, n, gmx_ana_index_intersection(Group(s2, n), Group(s2, child)))
            ELSE s2
        Rest(s4) == IF Ok(s4) THEN and_loop(s4, n, s4.sel[child].next) ELSE s4
    IN  IF child = 0 \/ Len(Group(st, n)) = 0 THEN st
        ELSE Rest(MempoolSelelemReserver_dtor(
                      Intersect(Evaluate(MempoolSelelemReserver_reserve(st, child, Len(Group(st, n))),
                                         child, Group(st, n))),
                      child))

\* buf is the index array of sel->v.u.g: its first isize entries are the
\* value of the node, the next tmpsize entries are the group tmp.
_gmx_sel_evaluate_or(st, n, g) ==
    LET child == st.sel[n].child
        Partition(s1) ==
            LET p  == gmx_ana_index_partition(g, Group(s1, child))
                s2 == IF Ok(s1) THEN SetGroup(s1, n, p.dest1) ELSE s1
                s3 == IF st.sel[child].evaluate # "none"
                      THEN MempoolSelelemReserver_dtor(s2, child) ELSE s2
            IN  IF Ok(s3)
                THEN or_loop(s3, n, s3.sel[child].next, p.dest1 \o p.dest2, Len(p.dest1),
                             Len(p.dest2))
                ELSE s3
    IN  Partition(IF st.sel[child].evaluate # "none"
                  THEN Evaluate(MempoolSelelemReserver_reserve(st, child, Len(g)), child, g)
                  ELSE st)

\* Mutant: the children after the first are never evaluated.
or_loop_first_only(st, n, child, buf, isize, tmpsize) ==
    SetGroup(st, n, gmx_ana_index_sort(SubSeq(buf, 1, isize)))

\* Mutant: the value of the node is left as the partitions built it.
or_loop_unsorted(st, n, child, buf, isize, tmpsize) ==
    LET tmp == SubSeq(buf, isize + 1, isize + tmpsize)
        Partition(s2) ==
            LET p  == gmx_ana_index_partition(tmp, Group(s2, child))
                nbuf == SubSeq(buf, 1, isize) \o p.dest1 \o p.dest2
                s3 == MempoolSelelemReserver_dtor(s2, child)
            IN  IF Ok(s3)
                THEN or_loop(SetGroup(s3, n, SubSeq(nbuf, 1, isize + Len(p.dest1))), n,
                             s3.sel[child].next, nbuf, isize + Len(p.dest1), Len(p.dest2))
                ELSE s3
    IN  IF child = 0 \/ tmpsize = 0
        THEN SetGroup(st, n, SubSeq(buf, 1, isize))
        ELSE Partition(Evaluate(MempoolSelelemReserver_reserve(st, child, tmpsize), child, tmp))

\* Mutant: what a child accepts is appended to the value but stays in tmp.
or_loop_keep(st, n, child, buf, isize, tmpsize) ==
    LET tmp == SubSeq(buf, isize + 1, isize + tmpsize)
        Partition(s2) ==
            LET p  == gmx_ana_index_partition(tmp, Group(s2, child))
                nbuf == SubSeq(buf, 1, isize) \o p.dest1 \o tmp
                s3 == MempoolSelelemReserver_dtor(s2, child)
            IN  IF Ok(s3)
                THEN or_loop(SetGroup(s3, n, SubSeq(nbuf, 1, isize + Len(p.dest1))), n,
                             s3.sel[child].next, nbuf, isize + Len(p.dest1), Len(tmp))
                ELSE s3
        at == Note(Note(st, n, "result", SubSeq(buf, 1, isize)), n, "remaining", tmp)
    IN  IF child = 0 \/ tmpsize = 0
        THEN SetGroup(at, n, gmx_ana_index_sort(SubSeq(buf, 1, isize)))
        ELSE Partition(Evaluate(MempoolSelelemReserver_reserve(at, child, tmpsize), child, tmp))

\* Mutant: a later child is evaluated over all of g.
or_loop_whole(st, n, child, buf, isize, tmpsize) ==
    LET tmp == SubSeq(buf, isize + 1, isize + tmpsize)
        Partition(s2) ==
            LET p  == gmx_ana_index_partition(tmp, Group(s2, child))
                nbuf == SubSeq(buf, 1, isize) \o p.dest1 \o p.dest2
                s3 == MempoolSelelemReserver_dtor(s2, child)
            IN  IF Ok(s3)
                THEN or_loop(SetGroup(s3, n, SubSeq(nbuf, 1, isize + Len(p.dest1))), n,
                             s3.sel[child].next, nbuf, isize + Len(p.dest1), Len(p.dest2))
                ELSE s3
    IN  IF child = 0 \/ tmpsize = 0
        THEN SetGroup(st, n, gmx_ana_index_sort(SubSeq(buf, 1, isize)))
        ELSE Partition(Evaluate(MempoolSelelemReserver_reserve(st, child, tmpsize), child,
                                gmx_ana_index_sort(buf)))

\* while (child && tmp.isize > 0), then gmx_ana_index_sort(sel->v.u.g)
or_loop(st, n, child, buf, isize, tmpsize) ==
    LET tmp == SubSeq(buf, isize + 1, isize + tmpsize)
        Partition(s2) ==
            LET p  == gmx_ana_index_partition(tmp, Group(s2, child))
                nbuf == SubSeq(buf, 1, isize) \o p.dest1 \o p.dest2
                s3 == MempoolSelelemReserver_dtor(s2, child)
            IN  IF Ok(s3)
                THEN or_loop(SetGroup(s3, n, SubSeq(nbuf, 1, isize + Len(p.dest1))), n,
                             s3.sel[child].next, nbuf, isize + Len(p.dest1), Len(p.dest2))
                ELSE s3
        \* what sel->v.u.g and tmp hold when the loop condition is tested
        at == Note(Note(st, n, "result", SubSeq(buf, 1, isize)), n, "remaining", tmp)
    IN  IF child = 0 \/ tmpsize = 0
        THEN SetGroup(at, n, gmx_ana_index_sort(SubSeq(buf, 1, isize)))
        ELSE Partition(Evaluate(MempoolSelelemReserver_reserve(at, child, tmpsize), child, tmp))

\* Mutant: the child is evaluated over the group given to the root.
_gmx_sel_evaluate_root_group(st, n, g) ==
    IF Len(st.sel[n].cgrp) = 0 \/ st.sel[st.sel[n].child].evaluate = "none"
    THEN st
    ELSE Evaluate(st, st.sel[n].child, g)

\* A cached group of a root with isize -1 (all atoms) is kept as NULL, which
\* is also what the root then passes on.
_gmx_sel_evaluate_root(st, n, g) ==
    IF Len(st.sel[n].cgrp) = 0 \/ st.sel[st.sel[n].child].evaluate = "none"
    THEN st
    ELSE Evaluate(st, st.sel[n].child, IF st.sel[n].cgrp = NULL THEN NULL ELSE st.sel[n].cgrp)

_gmx_sel_evaluate_subexpr_simple(st, n, g) ==
    LET child == st.sel[n].child
        Count(s1) == IF Ok(s1) THEN [s1 EXCEPT !.sel[n].nr = s1.sel[child].nr] ELSE s1
    IN  Count(IF st.sel[child].evaluate # "none" THEN Evaluate(st, child, g) ELSE st)

_gmx_sel_evaluate_subexpr_staticeval(st, n, g) ==
    LET child == st.sel[n].child
        Cache(s1) ==
            IF Ok(s1)
            THEN [s1 EXCEPT !.sel[n].nr = s1.sel[child].nr,
                            !.sel[n].cgrp = gmx_ana_index_set(Len(g), g)]
            ELSE s1
    IN  IF Len(st.sel[n].cgrp) = 0 THEN Cache(Evaluate(st, child, g)) ELSE st

\* A read of v.u.i[k] outside the storage is undefined behaviour.
Touch(st, p, k) == IF ReadOk(st, p, k) THEN st ELSE [st EXCEPT !.ub = TRUE]

\* The merge loop of the INT_VALUE, REAL_VALUE and STR_VALUE cases:
\* for (k = cgrp.isize + gmiss.isize - 1; k >= 0; k--), i, j, k from 0.
RECURSIVE subexpr_merge_loop(_, _, _, _, _, _)
subexpr_merge_loop(st, n, gmiss, i, j, k) ==
    IF k < 0 THEN st
    ELSE LET child == st.sel[n].child
             own == st.sel[n].ptr
         IN  IF i < 0 \/ (j >= 0 /\ st.sel[n].cgrp[i + 1] < gmiss[j + 1])
             THEN subexpr_merge_loop(WriteAt(Touch(st, own, j), own, k, ReadAt(st, own, j)),
                                     n, gmiss, i, j - 1, k - 1)
             ELSE subexpr_merge_loop(WriteAt(Touch(st, st.sel[child].ptr, i), own, k,
                                             ReadAt(st, st.sel[child].ptr, i)),
                                     n, gmiss, i - 1, j, k - 1)

\* Mutant: the cached group is not extended by the missing atoms.
subexpr_missing_nomerge(st, n, gmiss) ==
    LET child == st.sel[n].child
        Merge(s2) ==
            IF ~Ok(s2) THEN s2
            ELSE IF s2.sel[n].vtype = "GROUP_VALUE"
                 THEN SetGroup(s2, n, gmx_ana_index_merge(Group(s2, child), Group(s2, n)))
                 ELSE IF IsVector(s2.sel[n].vtype)
                      THEN subexpr_merge_loop(s2, n, gmiss, Len(s2.sel[n].cgrp) - 1,
                                              Len(gmiss) - 1,
                                              Len(s2.sel[n].cgrp) + Len(gmiss) - 1)
                      ELSE IF s2.sel[n].vtype = "POS_VALUE"
                           THEN Throw(s2, "NotImplemented")
                           ELSE Throw(s2, "Internal")
        Cache(s3) == s3
    IN  MempoolSelelemReserver_dtor(
            Cache(Merge(Evaluate(MempoolSelelemReserver_reserve(st, child, Len(gmiss)), child,
                                 gmiss))),
            child)

\* Mutant: positions are merged as groups are.
subexpr_missing_posmerge(st, n, gmiss) ==
    LET child == st.sel[n].child
        Merge(s2) ==
            IF ~Ok(s2) THEN s2
            ELSE IF s2.sel[n].vtype \in {"GROUP_VALUE", "POS_VALUE"}
                 THEN SetGroup(s2, n, gmx_ana_index_merge(Group(s2, child), Group(s2, n)))
                 ELSE IF IsVector(s2.sel[n].vtype)
                      THEN subexpr_merge_loop(s2, n, gmiss, Len(s2.sel[n].cgrp) - 1,
                                              Len(gmiss) - 1,
                                              Len(s2.sel[n].cgrp) + Len(gmiss) - 1)
                      ELSE IF s2.sel[n].vtype = "POS_VALUE"
                           THEN Throw(s2, "NotImplemented")
                           ELSE Throw(s2, "Internal")
        Cache(s3) == IF Ok(s3) THEN [s3 EXCEPT !.sel[n].cgrp = gmx_ana_index_merge(@, gmiss)] ELSE s3
    IN  MempoolSelelemReserver_dtor(
            Cache(Merge(Evaluate(MempoolSelelemReserver_reserve(st, child, Len(gmiss)), child,
                                 gmiss))),
            child)

\* The block if (gmiss.isize > 0) { ... }.
subexpr_missing(st, n, gmiss) ==
    LET child == st.sel[n].child
        Merge(s2) ==
            IF ~Ok(s2) THEN s2
            ELSE IF s2.sel[n].vtype = "GROUP_VALUE"
                 THEN SetGroup(s2, n, gmx_ana_index_merge(Group(s2, child), Group(s2, n)))
                 ELSE IF IsVector(s2.sel[n].vtype)
                      THEN subexpr_merge_loop(s2, n, gmiss, Len(s2.sel[n].cgrp) - 1,
                                              Len(gmiss) - 1,
                                              Len(s2.sel[n].cgrp) + Len(gmiss) - 1)
                      ELSE IF s2.sel[n].vtype = "POS_VALUE"
                           THEN Throw(s2, "NotImplemented")
                           ELSE Throw(s2, "Internal")
        Cache(s3) == IF Ok(s3) THEN [s3 EXCEPT !.sel[n].cgrp = gmx_ana_index_merge(@, gmiss)] ELSE s3
    IN  MempoolSelelemReserver_dtor(
            Cache(Merge(Evaluate(MempoolSelelemReserver_reserve(st, child, Len(gmiss)), child,
                                 gmiss))),
            child)

\* Mutant: every atom of g is taken as missing.
_gmx_sel_evaluate_subexpr_nodiff(st, n, g) ==
    LET child == st.sel[n].child
        old_ptr == st.sel[child].ptr
        old_nalloc == st.sel[child].nalloc
        s1 == SelelemTemporaryValueAssigner_assign(st, child, n)
        Cache(s2) == IF Ok(s2) THEN [s2 EXCEPT !.sel[n].cgrp = gmx_ana_index_copy(g)] ELSE s2
        r1 == MempoolGroupReserver_reserve(st, Len(g))
        gmiss == g
    IN  IF Len(st.sel[n].cgrp) = 0
        THEN Cache(IF Ok(s1)
                   THEN SelelemTemporaryValueAssigner_dtor(Evaluate(s1, child, g), child,
                                                           old_ptr, old_nalloc)
                   ELSE s1)
        ELSE MempoolGroupReserver_dtor(
                 IF Len(gmiss) > 0 THEN subexpr_missing(r1, n, gmiss) ELSE r1, TRUE)

\* Mutant: the first call of a frame does not record g as the cached group.
_gmx_sel_evaluate_subexpr_nocache(st, n, g) ==
    LET child == st.sel[n].child
        old_ptr == st.sel[child].ptr
        old_nalloc == st.sel[child].nalloc
        s1 == SelelemTemporaryValueAssigner_assign(st, child, n)
        Cache(s2) == s2
        r1 == MempoolGroupReserver_reserve(st, Len(g))
        gmiss == gmx_ana_index_difference(g, st.sel[n].cgrp)
    IN  IF Len(st.sel[n].cgrp) = 0
        THEN Cache(IF Ok(s1)
                   THEN SelelemTemporaryValueAssigner_dtor(Evaluate(s1, child, g), child,
                                                           old_ptr, old_nalloc)
                   ELSE s1)
        ELSE MempoolGroupReserver_dtor(
                 IF Len(gmiss) > 0 THEN subexpr_missing(r1, n, gmiss) ELSE r1, TRUE)

_gmx_sel_evaluate_subexpr(st, n, g) ==
    LET child == st.sel[n].child
        old_ptr == st.sel[child].ptr
        old_nalloc == st.sel[child].nalloc
        s1 == SelelemTemporaryValueAssigner_assign(st, child, n)
        Cache(s2) == IF Ok(s2) THEN [s2 EXCEPT !.sel[n].cgrp = gmx_ana_index_copy(g)] ELSE s2
        r1 == MempoolGroupReserver_reserve(st, Len(g))
        gmiss == gmx_ana_index_difference(g, st.sel[n].cgrp)
    IN  IF Len(st.sel[n].cgrp) = 0
        THEN Cache(IF Ok(s1)
                   THEN SelelemTemporaryValueAssigner_dtor(Evaluate(s1, child, g), child,
                                                           old_ptr, old_nalloc)
                   ELSE s1)
        ELSE MempoolGroupReserver_dtor(
                 IF Len(gmiss) > 0 THEN subexpr_missing(r1, n, gmiss) ELSE r1, TRUE)

\* Mutant: value i of the target is taken for member i of g.
subexprref_gather_loop_dense(st, n, g, i, j) ==
    IF i >= Len(g) THEN st
    ELSE LET expr == st.sel[n].child
         IN  subexprref_gather_loop(
                 WriteAt(Touch(st, st.sel[expr].ptr, j), st.sel[n].ptr, i,
                         ReadAt(st, st.sel[expr].ptr, j)),
                 n, g, i + 1, j + 1)

\* Extract the values corresponding to g:
\* for (i = j = 0; i < g->isize; ++i, ++j) { while (cgrp.index[j] < g->index[i]) ++j; ... }
subexprref_gather_loop(st, n, g, i, j) ==
    IF i >= Len(g) THEN st
    ELSE LET expr == st.sel[n].child
             cg == st.sel[expr].cgrp
         IN  IF j >= Len(cg)
             THEN [st EXCEPT !.ub = TRUE, !.err = "Crash"]
             ELSE IF cg[j + 1] < g[i + 1]
                  THEN subexprref_gather_loop(st, n, g, i, j + 1)
                  ELSE subexprref_gather_loop(
                           WriteAt(Touch(st, st.sel[expr].ptr, j), st.sel[n].ptr, i,
                                   ReadAt(st, st.sel[expr].ptr, j)),
                           n, g, i + 1, j + 1)

\* memcpy(sel->v.u.i, expr->v.u.i, sel->v.nr*sizeof(*sel->v.u.i))
RECURSIVE subexprref_memcpy(_, _, _)
subexprref_memcpy(st, n, k) ==
    IF k >= st.sel[n].nr THEN st
    ELSE subexprref_memcpy(WriteAt(Touch(st, st.sel[st.sel[n].child].ptr, k), st.sel[n].ptr, k,
                                   ReadAt(st, st.sel[st.sel[n].child].ptr, k)), n, k + 1)

\* if (sel->u.param) { sel->u.param->val.nr = sel->v.nr; ... }
\* nval is what nvalptr points to.
subexprref_store_nr(st, n) ==
    IF st.sel[n].param
    THEN LET s1 == [st EXCEPT !.sel[n].param_nr = st.sel[n].nr]
         IN  IF st.sel[n].nvalptr THEN [s1 EXCEPT !.sel[n].nval = s1.sel[n].param_nr] ELSE s1
    ELSE st

\* Mutant: the target is evaluated before it is pointed at the storage of
\* the reference.
_gmx_sel_evaluate_subexprref_simple_late(st, n, g) ==
    LET child == st.sel[n].child
        gchild == st.sel[child].child
        Count(s1) ==
            IF Ok(s1) THEN subexprref_store_nr([s1 EXCEPT !.sel[n].nr = s1.sel[child].nr], n)
            ELSE s1
        Redirect(s2) ==
            IF Ok(s2)
            THEN _gmx_selvalue_setstore_alloc(_gmx_selvalue_setstore(s2, child, s2.sel[n].ptr),
                                              gchild, s2.sel[n].ptr, s2.sel[gchild].nalloc)
            ELSE s2
    IN  Count(IF g # NULL THEN Redirect(Evaluate(st, child, g)) ELSE st)

\* SEL_SUBEXPRREF whose SEL_SUBEXPR has no other reference: the target and
\* its child are pointed at the storage of the reference, for good.
_gmx_sel_evaluate_subexprref_simple(st, n, g) ==
    LET child == st.sel[n].child
        gchild == st.sel[child].child
        Count(s1) ==
            IF Ok(s1) THEN subexprref_store_nr([s1 EXCEPT !.sel[n].nr = s1.sel[child].nr], n)
            ELSE s1
    IN  Count(IF g # NULL
              THEN Evaluate(_gmx_selvalue_setstore_alloc(
                                _gmx_selvalue_setstore(st, child, st.sel[n].ptr),
                                gchild, st.sel[n].ptr, st.sel[gchild].nalloc),
                            child, g)
              ELSE st)

_gmx_sel_evaluate_subexprref(st, n, g) ==
    LET expr == st.sel[n].child
        t  == st.sel[n].vtype
        Extract(s1) ==
            IF ~Ok(s1) THEN s1
            ELSE IF IsVector(t)
                 THEN IF g = NULL
                      THEN subexprref_memcpy([s1 EXCEPT !.sel[n].nr = s1.sel[expr].nr], n, 0)
                      ELSE subexprref_gather_loop([s1 EXCEPT !.sel[n].nr = Len(g)], n, g, 0, 0)
                 ELSE IF t = "POS_VALUE"
                      THEN SetGroup(s1, n, Group(s1, expr))
                      ELSE IF t = "GROUP_VALUE"
                           THEN IF g = NULL
                                THEN SetGroup(s1, n, gmx_ana_index_copy(Group(s1, expr)))
                                ELSE SetGroup(s1, n, gmx_ana_index_intersection(Group(s1, expr), g))
                           ELSE Throw(s1, "Internal")
        Store(s2) == IF Ok(s2) THEN subexprref_store_nr(s2, n) ELSE s2
    IN  Store(Extract(IF g # NULL THEN Evaluate(st, expr, g) ELSE st))

(* ------------------------------ arithmetic ----------------------------- *)
\* A real is the fraction <<n, d>> in lowest terms with d > 0; NaR is what
\* a division by zero or a power that is no fraction yields (an infinity
\* or a NaN), and every operation on NaR yields NaR.
NaR == <<0, 0>>

RECURSIVE GCD(_, _)
GCD(a, b) == IF b = 0 THEN a ELSE GCD(b, a % b)

Abs(x) == IF x < 0 THEN -x ELSE x

Real(n, d) ==
    IF d = 0 THEN NaR
    ELSE LET k == GCD(Abs(n), Abs(d))
         IN  IF d > 0 THEN <<n \div k, d \div k>> ELSE <<(-n) \div k, (-d) \div k>>

RECURSIVE pow(_, _)
pow(x, y) ==
    IF x = NaR \/ y = NaR \/ y[2] # 1 THEN NaR
    ELSE IF y[1] = 0 THEN <<1, 1>>
    ELSE IF y[1] < 0 THEN LET r == pow(x, <<-y[1], 1>>) IN Real(r[2], r[1])
    ELSE LET r == pow(x, <<y[1] - 1, 1>>) IN Real(r[1] * x[1], r[2] * x[2])

\* switch (sel->u.arith.type)
ArithOp(type, lval, rval) ==
    IF lval = NaR \/ (type # "ARITH_NEG" /\ rval = NaR) THEN NaR
    ELSE CASE type = "ARITH_PLUS"  -> Real(lval[1] * rval[2] + rval[1] * lval[2], lval[2] * rval[2])
           [] type = "ARITH_MINUS" -> Real(lval[1] * rval[2] - rval[1] * lval[2], lval[2] * rval[2])
           [] type = "ARITH_NEG"   -> Real(-lval[1], lval[2])
           [] type = "ARITH_MULT"  -> Real(lval[1] * rval[1], lval[2] * rval[2])
           [] type = "ARITH_DIV"   -> Real(lval[1] * rval[2], lval[2] * rval[1])
           [] type = "ARITH_EXP"   -> pow(lval, rval)

\* The loop with both operand indices advanced on every element, whatever
\* the operands' flags.
RECURSIVE arithmetic_loop_advance(_, _, _, _, _, _)
arithmetic_loop_advance(st, n, i, i1, i2, nn) ==
    IF i >= nn THEN st
    ELSE LET left == st.sel[n].child
             right == st.sel[left].next
             bArithNeg == st.sel[n].arith = "ARITH_NEG"
             lval == ReadAt(st, st.sel[left].ptr, i1)
             rval == IF bArithNeg THEN <<0, 1>> ELSE ReadAt(st, st.sel[right].ptr, i2)
             s1 == Note(Touch(st, st.sel[left].ptr, i1), left, "read", <<i1>>)
             s2 == IF bArithNeg THEN s1
                   ELSE Note(Touch(s1, st.sel[right].ptr, i2), right, "read", <<i2>>)
             s3 == WriteAt(s2, st.sel[n].ptr, i, ArithOp(st.sel[n].arith, lval, rval))
         IN  arithmetic_loop_advance(s3, n, i + 1, i1 + 1, i2 + 1, nn)

\* for (i = i1 = i2 = 0; i < n; ++i); the log notes every read of an
\* operand with the index read.
RECURSIVE arithmetic_loop(_, _, _, _, _, _)
arithmetic_loop(st, n, i, i1, i2, nn) ==
    IF i >= nn THEN st
    ELSE LET left == st.sel[n].child
             right == st.sel[left].next
             bArithNeg == st.sel[n].arith = "ARITH_NEG"
             lval == ReadAt(st, st.sel[left].ptr, i1)
             rval == IF bArithNeg THEN <<0, 1>> ELSE ReadAt(st, st.sel[right].ptr, i2)
             s1 == Note(Touch(st, st.sel[left].ptr, i1), left, "read", <<i1>>)
             s2 == IF bArithNeg THEN s1
                   ELSE Note(Touch(s1, st.sel[right].ptr, i2), right, "read", <<i2>>)
             s3 == WriteAt(s2, st.sel[n].ptr, i, ArithOp(st.sel[n].arith, lval, rval))
         IN  arithmetic_loop(s3, n, i + 1,
                             IF "SEL_SINGLEVAL" \notin st.sel[left].flags THEN i1 + 1 ELSE i1,
                             IF ~bArithNeg /\ "SEL_SINGLEVAL" \notin st.sel[right].flags
                             THEN i2 + 1 ELSE i2,
                             nn)

\* assigned is the node the assigner redirected (0: none), reserved the
\* node the reserver holds a reservation for (0: none); the reserver is
\* declared last and so is destroyed first.
_gmx_sel_evaluate_arithmetic(st, n, g) ==
    LET left == st.sel[n].child
        right == st.sel[left].next
        assigned == IF st.sel[left].mempool THEN left
                    ELSE IF right # 0 /\ st.sel[right].mempool THEN right ELSE 0
        old_ptr == IF assigned # 0 THEN st.sel[assigned].ptr ELSE 0
        old_nalloc == IF assigned # 0 THEN st.sel[assigned].nalloc ELSE 0
        s1 == IF assigned # 0 THEN SelelemTemporaryValueAssigner_assign(st, assigned, n) ELSE st
        reserved == IF Ok(s1) /\ assigned = left /\ right # 0 THEN right ELSE 0
        s2 == IF reserved # 0 THEN MempoolSelelemReserver_reserve(s1, right, Len(g)) ELSE s1
        nn == IF "SEL_SINGLEVAL" \in st.sel[n].flags THEN 1 ELSE Len(g)
        Body(s3) ==
            IF ~Ok(s3) THEN s3
            ELSE IF right = 0 /\ st.sel[n].arith # "ARITH_NEG" /\ nn > 0 THEN Crash(s3)
            ELSE arithmetic_loop([s3 EXCEPT !.sel[n].nr = nn], n, 0, 0, 0, nn)
        Unwind(s4) ==
            IF assigned # 0 /\ Ok(s1)
            THEN SelelemTemporaryValueAssigner_dtor(
                     IF reserved # 0 THEN MempoolSelelemReserver_dtor(s4, reserved) ELSE s4,
                     assigned, old_ptr, old_nalloc)
            ELSE s4
    IN  Unwind(Body(IF Ok(s2) THEN _gmx_sel_evaluate_children(s2, n, g) ELSE s2))

\* child->evaluate(data, child, g): the dispatch slot of the node.  The
\* log records the invocation and the moment control leaves it, by return
\* or by an exception.
Evaluate(st, n, g) ==
    LET s1 == Note(st, n, "evaluate", g)
        e  == st.sel[n].evaluate
        r  == CASE e = "static" -> _gmx_sel_evaluate_static(s1, n, g)
                [] e = "method" -> _gmx_sel_evaluate_method(s1, n, g)
                [] e = "modifier" -> _gmx_sel_evaluate_modifier(s1, n, g)
                [] e = "root"   -> _gmx_sel_evaluate_root(s1, n, g)
                [] e = "subexpr_simple" -> _gmx_sel_evaluate_subexpr_simple(s1, n, g)
                [] e = "subexpr_staticeval" -> _gmx_sel_evaluate_subexpr_staticeval(s1, n, g)
                [] e = "subexpr" -> _gmx_sel_evaluate_subexpr(s1, n, g)
                [] e = "ref_simple" -> _gmx_sel_evaluate_subexprref_simple(s1, n, g)
                [] e = "ref"    -> _gmx_sel_evaluate_subexprref(s1, n, g)
                [] e = "not"    -> _gmx_sel_evaluate_not(s1, n, g)
                [] e = "and"    -> _gmx_sel_evaluate_and(s1, n, g)
                [] e = "or"     -> _gmx_sel_evaluate_or(s1, n, g)
                [] e = "arithmetic" -> _gmx_sel_evaluate_arithmetic(s1, n, g)
                [] OTHER        -> Crash(s1)
    IN  Note(r, n, "return", g)

(* ---------------------------- frame lifecycle -------------------------- *)
\* Mutant: the walk descends through references as well.
RECURSIVE init_frame_eval_descend(_, _)
init_frame_eval_descend(st, n) ==
    IF n = 0 THEN st
    ELSE LET e  == st.sel[n]
             s0 == Note(st, n, "init_frame_eval", NULL)
             s1 == [s0 EXCEPT !.sel[n].flags =
                        (@ \ {"SEL_INITFRAME", "SEL_EVALFRAME"})
                        \cup (IF e.type = "SEL_EXPRESSION" /\ e.init_frame
                              THEN {"SEL_INITFRAME"} ELSE {})]
             s2 == IF e.child # 0 THEN init_frame_eval_descend(s1, e.child) ELSE s1
         IN  init_frame_eval_descend(s2, e.next)

\* The log notes every element the walk visits.
RECURSIVE init_frame_eval(_, _)
init_frame_eval(st, n) ==
    IF n = 0 THEN st
    ELSE LET e  == st.sel[n]
             s0 == Note(st, n, "init_frame_eval", NULL)
             s1 == [s0 EXCEPT !.sel[n].flags =
                        (@ \ {"SEL_INITFRAME", "SEL_EVALFRAME"})
                        \cup (IF e.type = "SEL_EXPRESSION" /\ e.init_frame
                              THEN {"SEL_INITFRAME"} ELSE {})]
             s2 == IF e.child # 0 /\ e.type # "SEL_SUBEXPRREF"
                   THEN init_frame_eval(s1, e.child)
                   ELSE s1
         IN  init_frame_eval(s2, e.next)

\* Mutant: the cache of a subexpression root is not cleared.
evaluate_root_noclear(st, n) ==
    IF st.sel[n].evaluate # "none" THEN Evaluate(st, n, NULL) ELSE st

\* One pass of the loop over the root elements: the cache of a
\* subexpression root is cleared, then the root is evaluated.
evaluate_root(st, n) ==
    LET e  == st.sel[n]
        c  == e.child
        s1 == IF c # 0 /\ st.sel[c].type = "SEL_SUBEXPR"
              THEN LET t1 == [st EXCEPT !.sel[c].cgrp = <<>>]
                   IN  IF st.sel[c].vtype = "GROUP_VALUE" THEN SetGroup(t1, c, <<>>) ELSE t1
              ELSE st
    IN  IF e.evaluate # "none" THEN Evaluate(s1, n, NULL) ELSE s1

\* Mutant: the loop ends after the first root.
evaluate_roots_first(st, n) ==
    IF n = 0 \/ ~Ok(st) THEN st
    ELSE evaluate_root(st, n)

\* The loop over the root elements of SelectionEvaluator::evaluate.
RECURSIVE evaluate_roots(_, _)
evaluate_roots(st, n) ==
    IF n = 0 \/ ~Ok(st) THEN st
    ELSE evaluate_roots(evaluate_root(st, n), st.sel[n].next)

\* The selections are refreshed once every root has been evaluated.
post_frame(st) ==
    IF Ok(st) THEN Note(Note(st, 0, "refreshMassesAndCharges", NULL),
                        0, "updateCoveredFractionForFrame", NULL)
    ELSE st

SelectionEvaluator_evaluate(st, root) ==
    post_frame(evaluate_roots(init_frame_eval(st, root), root))

(* ------------------------- compiled trees ------------------------------ *)
\* A node as the compiler leaves it.  S and f describe the plugin of a
\* method node (the atoms its predicate accepts, the value it gives each
\* atom); a constant group node keeps its group in cgrp.
t_selelem ==
    [type |-> "SEL_CONST", vtype |-> "GROUP_VALUE", flags |-> {}, child |-> 0, next |-> 0,
     evaluate |-> "none", mempool |-> FALSE, cgrp |-> <<>>, nr |-> 0, ptr |-> 0, nalloc |-> 0,
     S |-> {}, f |-> <<>>, pc |-> FALSE, init_frame |-> FALSE, arith |-> "none",
     param |-> FALSE, param_nr |-> 0, nvalptr |-> FALSE, nval |-> 0]

\* A group-valued leaf: a pooled method node, or a constant group.
GroupLeaf(kind, S, next, self) ==
    IF kind = "method"
    THEN [t_selelem EXCEPT !.type = "SEL_EXPRESSION", !.evaluate = "method", !.mempool = TRUE,
                           !.S = S, !.next = next, !.ptr = self]
    ELSE [t_selelem EXCEPT !.type = "SEL_CONST", !.evaluate = "static", !.cgrp = AsGroup(S),
                           !.S = S, !.next = next, !.ptr = self]

\* Node 1 is a boolean node with evaluator op; nodes 2 .. are its children.
BoolTree(op, kind, Ss) ==
    [n \in 1 .. (Len(Ss) + 1) |->
        IF n = 1
        THEN [t_selelem EXCEPT !.type = "SEL_BOOLEAN", !.evaluate = op, !.child = 2, !.ptr = 1]
        ELSE GroupLeaf(kind, Ss[n - 1], IF n <= Len(Ss) THEN n + 1 ELSE 0, n)]

Children(n) ==
    LET RECURSIVE Sibs(_)
        Sibs(c) == IF c = 0 THEN {} ELSE {c} \cup Sibs(sel[c].next)
    IN  Sibs(sel[n].child)

(* ------------------------------ actions -------------------------------- *)
NoFail == <<0, "none">>

\* No evaluate() call of another collection is under way.
NoRun == [ctx |-> <<>>, th |-> <<>>, mixed |-> FALSE]

\* No guard object is alive: a default-constructed reserver and assigner
\* (sel_(NULL), old_ptr_(NULL), old_nalloc_(0)) out of scope; order lists
\* the live objects as constructed, at the address where sel stood before
\* the last assign, last the last member function called.
NoGuard ==
    [reserver |-> [live |-> FALSE, sel_ |-> 0],
     assigner |-> [live |-> FALSE, sel_ |-> 0, old_ptr_ |-> 0, old_nalloc_ |-> 0],
     order |-> <<>>, at |-> <<>>, last |-> [op |-> "none", n |-> 0, v |-> 0]]

\* No command-line help writer has been constructed.
NoHelp == [options |-> <<>>]

NoCall == [fn |-> "none", node |-> 0, g |-> NULL, pool0 |-> 0, fail |-> NoFail]

\* What a read of uninitialised memory may find: a value no method
\* produces, or one that a method does produce.
JunkVals == {-1, 10}

State(fail) ==
    [sel |-> sel, mem |-> mem, pool |-> pool, err |-> "none", log |-> <<>>, ub |-> FALSE,
     junk |-> junk, fail |-> fail, fr |-> 0]

Commit(r, n, g) ==
    /\ sel' = r.sel
    /\ mem' = r.mem
    /\ pool' = r.pool
    /\ err' = r.err
    /\ log' = r.log
    /\ ub' = r.ub
    /\ UNCHANGED <<run, help, guard>>
    /\ call' = [fn |-> IF g = NULL /\ sel[n].type = "SEL_ROOT" THEN "evaluate" ELSE sel[n].evaluate,
                node |-> n, g |-> g, pool0 |-> Len(pool), fail |-> r.fail]

\* A caller invokes the evaluator of the boolean node 1 of a freshly
\* compiled tree over g.
EvaluateNot(g) ==
    /\ sel[1].evaluate = "not"
    /\ call = NoCall
    /\ Commit(Evaluate(State(NoFail), 1, g), 1, g)
    /\ UNCHANGED <<frame, hist, junk>>

EvaluateAnd(g) ==
    /\ sel[1].evaluate = "and"
    /\ call = NoCall
    /\ Commit(Evaluate(State(NoFail), 1, g), 1, g)
    /\ UNCHANGED <<frame, hist, junk>>

EvaluateOr(g) ==
    /\ sel[1].evaluate = "or"
    /\ call = NoCall
    /\ Commit(Evaluate(State(NoFail), 1, g), 1, g)
    /\ UNCHANGED <<frame, hist, junk>>

\* What is remembered of the calls made so far: the atoms passed to the
\* subexpression in this frame, whether the last call repeated the one
\* before it, and for the method with an init_frame callback: the number
\* of init_frame calls of this frame (2 stands for more), whether the
\* method was evaluated in this frame, whether init_frame ever ran
\* elsewhere than in the first evaluation of a frame, the number of
\* init_frame calls altogether and of frames that evaluated the method.
NoHist ==
    [seen |-> {}, repeat |-> FALSE, inits |-> 0, evald |-> FALSE, late |-> FALSE,
     total |-> 0, active |-> 0, first |-> NULL]

InitFrameNodes == {n \in DOMAIN sel : sel[n].type = "SEL_EXPRESSION" /\ sel[n].init_frame}

Min(a, b) == IF a < b THEN a ELSE b

\* The cached group that the first evaluation of the subexpression 1 in
\* this frame found: the one known already, or the one the log l shows.
FirstCgrp(known, l) ==
    LET evs == {i \in DOMAIN l : l[i].what = "evaluate" /\ l[i].node = 1
                                 /\ sel[1].type = "SEL_SUBEXPR"}
    IN  IF known # NULL \/ evs = {} THEN known
        ELSE l[CHOOSE i \in evs : \A j \in evs : i <= j].cgrp

\* hist after a call that left the log l; base is hist, or hist with the
\* per-frame part cleared when the call starts a frame.
Remember(base, l, seen, repeat) ==
    LET evs == {i \in DOMAIN l : l[i].what = "evaluate" /\ l[i].node \in InitFrameNodes}
        ins == {i \in DOMAIN l : l[i].what = "init_frame" /\ l[i].node \in InitFrameNodes}
        evald == base.evald \/ evs # {}
    IN  [seen |-> seen, repeat |-> repeat,
         inits |-> Min(base.inits + Cardinality(ins), 2),
         evald |-> evald,
         late |-> base.late \/ \E i \in ins : base.evald \/ Cardinality({e \in evs : e < i}) # 1,
         total |-> Min(base.total + Cardinality(ins), MaxFrames + 1),
         active |-> base.active + (IF evald /\ ~base.evald THEN 1 ELSE 0),
         first |-> FirstCgrp(base.first, l)]

InitCommon ==
    /\ pool = <<>>
    /\ err = "none"
    /\ log = <<>>
    /\ ub = FALSE
    /\ call = NoCall
    /\ frame = 0
    /\ hist = NoHist
    /\ run = NoRun
    /\ help = NoHelp
    /\ guard = NoGuard

\* A NOT over one leaf, an AND or an OR over 1 .. MaxChildren leaves; the
\* leaves are all method elements or all constant groups.
BoolTrees(op, kind) ==
    IF op = "not"
    THEN {BoolTree(op, kind, <<S>>) : S \in SUBSET Atoms}
    ELSE UNION {{BoolTree(op, kind, Ss) : Ss \in [1 .. k -> SUBSET Atoms]} : k \in 1 .. MaxChildren}

InitBool ==
    /\ \E op \in {"not", "and", "or"}, kind \in {"method", "static"} : sel \in BoolTrees(op, kind)
    /\ junk = -1
    /\ mem = [p \in DOMAIN sel |-> <<>>]
    /\ InitCommon

NextBool ==
    \/ \E g \in Groups : EvaluateNot(g)
    \/ \E g \in Groups : EvaluateAnd(g)
    \/ \E g \in Groups : EvaluateOr(g)

SpecBool == InitBool /\ [][NextBool]_vars

(* ----------------------- subexpression trees --------------------------- *)
\* Node 1 is a SubExpr-general element of value type t over the method
\* element 2 (pooled, value 10*i for atom i or the atoms of S); node 3 is a
\* reference to it; node 4 is the root of the subexpression and node 5 the
\* root of the selection that uses the reference, evaluated over gsel.
SubExprTree(t, S, gsel) ==
    [n \in 1 .. 5 |->
        CASE n = 1 -> [t_selelem EXCEPT !.type = "SEL_SUBEXPR", !.vtype = t, !.evaluate = "subexpr",
                                        !.child = 2, !.ptr = 1]
          [] n = 2 -> [t_selelem EXCEPT !.type = "SEL_EXPRESSION", !.vtype = t, !.evaluate = "method",
                                        !.mempool = TRUE, !.S = S, !.f = [i \in Atoms |-> 10 * i],
                                        !.ptr = IF IsVector(t) THEN 0 ELSE 2]
          [] n = 3 -> [t_selelem EXCEPT !.type = "SEL_SUBEXPRREF", !.vtype = t, !.evaluate = "ref",
                                        !.child = 1, !.ptr = 3]
          [] n = 4 -> [t_selelem EXCEPT !.type = "SEL_ROOT", !.vtype = "NO_VALUE", !.evaluate = "root",
                                        !.child = 1, !.next = 5]
          [] n = 5 -> [t_selelem EXCEPT !.type = "SEL_ROOT", !.vtype = "NO_VALUE", !.evaluate = "root",
                                        !.child = 3, !.cgrp = gsel]]

\* The storage the compiler allocated: MaxAtom uninitialised values for a
\* vector-valued element that owns its storage, an empty group otherwise.
SubExprMem(t) ==
    IF IsVector(t)
    THEN [p \in {1, 3} |-> [k \in 1 .. MaxAtom |-> junk]]
    ELSE [p \in {1, 2, 3} |-> <<>>]

\* The groups the evaluator of node n was called with.
PassedTo(l, n) == UNION {SeqSet(l[i].g) : i \in {i \in DOMAIN l : l[i].node = n /\ l[i].what = "evaluate"}}

\* A reference-like caller invokes the evaluator of node n over g within
\* the current frame.
CallInFrame(n, g, fail) ==
    LET Returns(r) ==
            /\ Commit(r, n, g)
            /\ hist' = Remember(hist, r.log,
                                 IF Ok(r) THEN hist.seen \cup PassedTo(r.log, 1) ELSE hist.seen,
                                 call.fn = sel[n].evaluate /\ call.g = g /\ err = "none")
    IN  /\ frame >= 1
        /\ Returns(Evaluate(State(fail), n, g))
        /\ UNCHANGED <<frame, junk>>

EvaluateSubExpr(g) ==
    /\ sel[1].evaluate = "subexpr"
    /\ CallInFrame(1, g, NoFail)

EvaluateSubExprRef(g) ==
    /\ 3 \in DOMAIN sel /\ sel[3].evaluate = "ref"
    /\ CallInFrame(3, g, NoFail)

\* SelectionEvaluator::evaluate for the next frame, from the first root.
EvaluateFrame(root) ==
    LET Returns(r) ==
            /\ Commit(r, root, NULL)
            /\ hist' = Remember([hist EXCEPT !.inits = 0, !.evald = FALSE, !.first = NULL], r.log,
                                 PassedTo(r.log, 1), FALSE)
    IN  /\ root \in DOMAIN sel /\ sel[root].type = "SEL_ROOT"
        /\ frame < MaxFrames
        /\ Returns(SelectionEvaluator_evaluate(State(NoFail), root))
        /\ frame' = frame + 1
        /\ UNCHANGED junk

\* Vector- and position-valued subexpressions over a method defined on
\* every atom; group-valued ones over a method that accepts S.
SubExprTrees ==
    {SubExprTree("INT_VALUE", Atoms, <<>>), SubExprTree("POS_VALUE", Atoms, <<>>)}
    \cup {SubExprTree("GROUP_VALUE", S, <<>>) : S \in {Atoms, Atoms \ {0}, {0}}}

GroupSubExprTrees == {SubExprTree("GROUP_VALUE", S, <<>>) : S \in SUBSET Atoms}

InitSubExpr ==
    /\ sel \in SubExprTrees
    /\ junk \in IF IsVector(sel[1].vtype) THEN JunkVals ELSE {-1}
    /\ mem = SubExprMem(sel[1].vtype)
    /\ InitCommon

\* Calls of the SubExpr-general evaluator itself.
NextSubExpr ==
    \/ EvaluateFrame(4)
    \/ \E g \in Groups : EvaluateSubExpr(g)

SpecSubExpr == InitSubExpr /\ [][NextSubExpr]_vars

\* Calls through the reference.
NextRef ==
    \/ EvaluateFrame(4)
    \/ \E g \in Groups : EvaluateSubExprRef(g)

SpecRef == InitSubExpr /\ [][NextRef]_vars

(* ------------------- methods with init_frame -------------------------- *)
\* The group-valued method 2 has an init_frame callback and is the child of
\* the subexpression 1, whose evaluator is ev; the selections with the
\* roots 5 and 6 use it through the references 3 and 7, over g1 and g2.
MethodTree(ev, g1, g2) ==
    [n \in 1 .. 7 |->
        CASE n = 1 -> [t_selelem EXCEPT !.type = "SEL_SUBEXPR", !.evaluate = ev, !.child = 2, !.ptr = 1]
          [] n = 2 -> [t_selelem EXCEPT !.type = "SEL_EXPRESSION", !.evaluate = "method",
                                        !.mempool = (ev = "subexpr"), !.S = Atoms,
                                        !.init_frame = TRUE, !.ptr = 2]
          [] n = 3 -> [t_selelem EXCEPT !.type = "SEL_SUBEXPRREF", !.evaluate = "ref", !.child = 1,
                                        !.ptr = 3]
          [] n = 4 -> [t_selelem EXCEPT !.type = "SEL_ROOT", !.vtype = "NO_VALUE", !.evaluate = "root",
                                        !.child = 1, !.next = 5]
          [] n = 5 -> [t_selelem EXCEPT !.type = "SEL_ROOT", !.vtype = "NO_VALUE", !.evaluate = "root",
                                        !.child = 3, !.cgrp = g1, !.next = 6]
          [] n = 6 -> [t_selelem EXCEPT !.type = "SEL_ROOT", !.vtype = "NO_VALUE", !.evaluate = "root",
                                        !.child = 7, !.cgrp = g2]
          [] n = 7 -> [t_selelem EXCEPT !.type = "SEL_SUBEXPRREF", !.evaluate = "ref", !.child = 1,
                                        !.ptr = 7]]

\* The groups of the two selections: none, one atom, every atom.
RootGroups == {<<>>, <<0>>, AsGroup(Atoms)}

InitMethod ==
    /\ \E ev \in {"subexpr_simple", "subexpr"}, g1 \in RootGroups, g2 \in RootGroups :
           sel = MethodTree(ev, g1, g2)
    /\ junk = -1
    /\ mem = [p \in {1, 2, 3, 7} |-> <<>>]
    /\ InitCommon

\* Frames, and between them further evaluations through the reference 3.
NextMethod ==
    \/ EvaluateFrame(4)
    \/ \E g \in Groups : EvaluateSubExprRef(g)

SpecMethod == InitMethod /\ [][NextMethod]_vars

(* -------------------------- arithmetic trees --------------------------- *)
\* The real-valued method n of an arithmetic element: value f[i] for atom
\* i, one value f[0] when single; a pooled operand has no storage of its
\* own.
Operand(n, f, pooled, single, next) ==
    [t_selelem EXCEPT !.type = "SEL_EXPRESSION", !.vtype = "REAL_VALUE", !.evaluate = "method",
                      !.mempool = pooled, !.S = Atoms, !.f = f, !.next = next,
                      !.flags = IF single THEN {"SEL_SINGLEVAL"} ELSE {},
                      !.ptr = IF pooled THEN 0 ELSE n]

\* Node 1 is the arithmetic element, node 2 its left operand and node 3 its
\* right operand, which a negation does not have.
ArithTree(op, single, l, r) ==
    [n \in 1 .. (IF op = "ARITH_NEG" THEN 2 ELSE 3) |->
        CASE n = 1 -> [t_selelem EXCEPT !.type = "SEL_ARITHMETIC", !.vtype = "REAL_VALUE",
                                        !.evaluate = "arithmetic", !.arith = op, !.child = 2,
                                        !.flags = IF single THEN {"SEL_SINGLEVAL"} ELSE {},
                                        !.ptr = 1]
          [] n = 2 -> Operand(2, l.f, l.pooled, l.single, IF op = "ARITH_NEG" THEN 0 ELSE 3)
          [] n = 3 -> Operand(3, r.f, r.pooled, r.single, 0)]

ArithTypes == {"ARITH_PLUS", "ARITH_MINUS", "ARITH_NEG", "ARITH_MULT", "ARITH_DIV", "ARITH_EXP"}

\* The values the two methods give: integers, the left ones 2, 3, ... or
\* -1, -2, ..., the right ones 1, 2, ... or -2, -3, ...
LeftValues == {[i \in Atoms |-> <<i + 2, 1>>], [i \in Atoms |-> <<-(i + 1), 1>>]}

RightValues == {[i \in Atoms |-> <<i + 1, 1>>], [i \in Atoms |-> <<-(i + 2), 1>>]}

Operands(fs) == {[f |-> f, pooled |-> p, single |-> sg] : f \in fs, p \in BOOLEAN, sg \in BOOLEAN}

\* The storage the compiler allocated: MaxAtom uninitialised values for
\* every element that owns its storage.
ArithMem == [p \in {n \in DOMAIN sel : sel[n].ptr = n} |-> [k \in 1 .. MaxAtom |-> junk]]

InitArith ==
    /\ \E op \in ArithTypes, single \in BOOLEAN, l \in Operands(LeftValues),
          r \in Operands(RightValues) : sel = ArithTree(op, single, l, r)
    /\ junk = <<-1, 1>>
    /\ mem = ArithMem
    /\ InitCommon

\* A caller invokes the evaluator of the arithmetic element 1 of a freshly
\* compiled tree over g.
EvaluateArithmetic(g) ==
    /\ sel[1].evaluate = "arithmetic"
    /\ call = NoCall
    /\ Commit(Evaluate(State(NoFail), 1, g), 1, g)
    /\ UNCHANGED <<frame, hist, junk>>

NextArith == \E g \in Groups : EvaluateArithmetic(g)

SpecArith == InitArith /\ [][NextArith]_vars

(* ------------------------- failing callbacks --------------------------- *)
\* The update callback of one method element throws, or none does.
Failures == {NoFail} \cup {<<n, "update">> : n \in {n \in DOMAIN sel : sel[n].evaluate = "method"}}

\* The sets the method leaves of a boolean tree accept.
LeafSets == {{}, {0}, Atoms}

InitGuardBool ==
    /\ \E op \in {"and", "or"}, k \in 1 .. MaxChildren :
           \E Ss \in [1 .. k -> LeafSets] : sel = BoolTree(op, "method", Ss)
       \/ \E S \in LeafSets : sel = BoolTree("not", "method", <<S>>)
    /\ junk = -1
    /\ mem = [p \in DOMAIN sel |-> <<>>]
    /\ InitCommon

\* A subexpression of a value type the merge has no case for.
InitGuardSubExpr ==
    /\ sel = SubExprTree("NO_VALUE", Atoms, <<>>)
    /\ junk = -1
    /\ mem = SubExprMem("NO_VALUE")
    /\ InitCommon

\* What uninitialised memory reads as plays no part in what is reserved,
\* so the subexpression trees start with one such value.
InitGuard == InitGuardBool \/ (InitSubExpr /\ junk = -1) \/ InitGuardSubExpr \/ InitArith

\* A call of the evaluator of node 1 during which the callback fail
\* throws: of a subexpression within a frame, of a boolean or arithmetic
\* element once.  A collection in which a call failed is discarded.
EvaluateFailing(g, fail) ==
    /\ err = "none"
    /\ fail \in Failures
    /\ IF sel[1].type = "SEL_SUBEXPR"
       THEN CallInFrame(1, g, fail)
       ELSE /\ call = NoCall
            /\ Commit(Evaluate(State(fail), 1, g), 1, g)
            /\ UNCHANGED <<frame, hist, junk>>

NextGuard ==
    \/ EvaluateFrame(4)
    \/ \E g \in Groups, n \in 0 .. 3 : EvaluateFailing(g, <<n, IF n = 0 THEN "none" ELSE "update">>)

SpecGuard == InitGuard /\ [][NextGuard]_vars

\* The boolean trees and the subexpression trees, the latter called
\* through the reference.
InitGroupSubExpr ==
    /\ sel \in GroupSubExprTrees
    /\ junk = -1
    /\ mem = SubExprMem(sel[1].vtype)
    /\ InitCommon

InitGroup == InitBool \/ InitGroupSubExpr

NextGroup == NextBool \/ NextRef

SpecGroup == InitGroup /\ [][NextGroup]_vars

(* -------------------- references used only once ----------------------- *)
\* An arithmetic element 1 whose left operand 2 is a pool-backed reference
\* to the subexpression 4 that nothing else refers to; 5 is the method of
\* the subexpression and 3 the right operand.  Neither the subexpression
\* nor its method owns storage: the reference lends them its own.
RefArithTree(op, r) ==
    [n \in 1 .. 5 |->
        CASE n = 1 -> [t_selelem EXCEPT !.type = "SEL_ARITHMETIC", !.vtype = "REAL_VALUE",
                                        !.evaluate = "arithmetic", !.arith = op, !.child = 2,
                                        !.ptr = 1]
          [] n = 2 -> [t_selelem EXCEPT !.type = "SEL_SUBEXPRREF", !.vtype = "REAL_VALUE",
                                        !.evaluate = "ref_simple", !.mempool = TRUE, !.child = 4,
                                        !.next = 3]
          [] n = 3 -> Operand(3, r.f, r.pooled, r.single, 0)
          [] n = 4 -> [t_selelem EXCEPT !.type = "SEL_SUBEXPR", !.vtype = "REAL_VALUE",
                                        !.evaluate = "subexpr_simple", !.child = 5]
          [] n = 5 -> Operand(5, [i \in Atoms |-> <<i + 2, 1>>], TRUE, FALSE, 0)]

InitRefArith ==
    /\ \E op \in {"ARITH_PLUS", "ARITH_MULT"}, r \in Operands(RightValues) :
           sel = RefArithTree(op, r)
    /\ junk = <<-1, 1>>
    /\ mem = ArithMem
    /\ InitCommon

InitStore == InitGuard \/ InitRefArith

SpecStore == InitStore /\ [][NextGuard]_vars

(* ------------------------- order of the roots ------------------------- *)
\* The first root of the collection: the one no element is followed by.
FirstRoot ==
    CHOOSE n \in DOMAIN sel : sel[n].type = "SEL_ROOT" /\ \A m \in DOMAIN sel : sel[m].next # n

\* A subexpression tree whose root 4 evaluates the subexpression over g4
\* and whose root 5 evaluates the reference over g5, with root 4 first in
\* the collection or root 5 first.
OrderTree(t, S, g4, g5, subexprFirst) ==
    [SubExprTree(t, S, g5) EXCEPT ![4].cgrp = g4,
                                  ![4].next = IF subexprFirst THEN 5 ELSE 0,
                                  ![5].next = IF subexprFirst THEN 0 ELSE 4]

InitOrder ==
    /\ \E t \in {"GROUP_VALUE", "INT_VALUE"}, g4 \in {<<>>, AsGroup(Atoms)},
          g5 \in {<<0>>, AsGroup(Atoms)}, subexprFirst \in BOOLEAN :
           sel = OrderTree(t, Atoms, g4, g5, subexprFirst)
    /\ junk = -1
    /\ mem = SubExprMem(sel[1].vtype)
    /\ InitCommon

NextOrder ==
    \/ EvaluateFrame(FirstRoot)
    \/ \E g \in RootGroups : EvaluateSubExprRef(g)

SpecOrder == InitOrder /\ [][NextOrder]_vars

(* --------------------------- repeated runs ----------------------------- *)
\* SelectionEvaluator::evaluate on the same collection and the same frame
\* input once more; j is what a read of memory that the run has not
\* written finds during this run.
EvaluateRun(j) ==
    LET Returns(r) ==
            /\ Commit(r, FirstRoot, NULL)
            /\ hist' = Remember([hist EXCEPT !.inits = 0, !.evald = FALSE, !.first = NULL],
                                 r.log, PassedTo(r.log, 1), FALSE)
    IN  /\ frame < MaxFrames
        /\ Returns(SelectionEvaluator_evaluate([State(NoFail) EXCEPT !.junk = j], FirstRoot))
        /\ frame' = frame + 1
        /\ junk' = j

InitRuns ==
    /\ \E t \in {"GROUP_VALUE", "INT_VALUE"}, g4 \in Groups, g5 \in Groups :
           sel = OrderTree(t, Atoms, g4, g5, TRUE)
    /\ junk \in JunkVals
    /\ mem = SubExprMem(sel[1].vtype)
    /\ InitCommon

NextRuns == \E j \in JunkVals : EvaluateRun(j)

SpecRuns == InitRuns /\ [][NextRuns]_vars

(* ------------------------- roots of a frame ---------------------------- *)
\* The method tree with the roots in idle left without an evaluator.
FrameTree(ev, g1, g2, idle) ==
    [n \in 1 .. 7 |->
        IF n \in idle THEN [MethodTree(ev, g1, g2)[n] EXCEPT !.evaluate = "none"]
        ELSE MethodTree(ev, g1, g2)[n]]

InitFrames ==
    /\ \E ev \in {"subexpr_simple", "subexpr"}, g1 \in RootGroups, g2 \in RootGroups,
          idle \in SUBSET {4, 5, 6} : sel = FrameTree(ev, g1, g2, idle)
    /\ junk = -1
    /\ mem = [p \in {1, 2, 3, 7} |-> <<>>]
    /\ InitCommon

SpecFrames == InitFrames /\ [][NextMethod]_vars

(* ----------------------- independent collections ----------------------- *)
\* Two threads, each calling SelectionEvaluator::evaluate on a collection
\* of its own.  run.th[c] is thread c: its collection st (tree, values and
\* pool), the frame fr its caller passed, and where it is in evaluate();
\* run.ctx[c] is the evaluation data, a local variable of its call.
Threads == {1, 2}

\* Mutant: the evaluation data is one object that every call fills in.
_gmx_sel_evaluate_init_static(ctx, d, mp, fr) == [x \in DOMAIN ctx |-> [mp |-> mp, fr |-> fr]]

\* _gmx_sel_evaluate_init fills in the evaluation data at d.
_gmx_sel_evaluate_init(ctx, d, mp, fr) == [ctx EXCEPT ![d] = [mp |-> mp, fr |-> fr]]

\* What thread c evaluates with: its collection, and the pool and the frame
\* that its evaluation data names.
Context(c) ==
    [run.th[c].st EXCEPT !.pool = run.th[run.ctx[c].mp].st.pool, !.fr = run.ctx[c].fr,
                         !.log = <<>>]

\* Another thread is inside its evaluate() call.
Overlaps(c) == \E o \in Threads \ {c} : run.th[o].pc \notin {"idle", "done"}

NoThread ==
    run.th # <<>> /\ UNCHANGED <<sel, mem, pool, err, log, ub, call, frame, hist, junk, help, guard>>

\* evaluate() up to the loop: the evaluation data is filled in and the
\* per-frame flags are set.
BeginEvaluate(c) ==
    /\ NoThread
    /\ run.th[c].pc = "idle"
    /\ run' = [run EXCEPT !.ctx = _gmx_sel_evaluate_init(@, c, c, run.th[c].fr),
                          !.th[c].st = init_frame_eval(@, 4),
                          !.th[c].pc = "roots",
                          !.th[c].at = 4,
                          !.mixed = @ \/ Overlaps(c)]

\* One pass of the loop over the roots.
EvaluateRoot(c) ==
    /\ NoThread
    /\ run.th[c].pc = "roots"
    /\ LET at == run.th[c].at
           r  == evaluate_root(Context(c), at)
           nxt == run.th[c].st.sel[at].next
       IN  run' = [run EXCEPT !.th[c].st = [r EXCEPT !.pool = run.th[c].st.pool],
                             !.th[c].pc = IF nxt = 0 \/ ~Ok(r) THEN "post" ELSE "roots",
                             !.th[c].at = nxt,
                             !.mixed = @ \/ Overlaps(c)]

\* The selections are refreshed and the call returns.
RefreshSelections(c) ==
    /\ NoThread
    /\ run.th[c].pc = "post"
    /\ run' = [run EXCEPT !.th[c].st = [post_frame(Context(c)) EXCEPT !.pool = run.th[c].st.pool],
                          !.th[c].pc = "done",
                          !.mixed = @ \/ Overlaps(c)]

\* A compiled collection on its own.
Collection(tree) ==
    [sel |-> tree, mem |-> [p \in {1, 2, 3, 7} |-> <<>>], pool |-> <<>>, err |-> "none",
     log |-> <<>>, ub |-> FALSE, junk |-> -1, fail |-> NoFail, fr |-> 0]

InitThreads ==
    /\ \E ev \in {"subexpr_simple", "subexpr"}, g1 \in RootGroups, g2 \in RootGroups,
          frs \in [Threads -> 0 .. 1] :
           run = [ctx |-> [d \in Threads |-> [mp |-> 0, fr |-> 0]],
                  th |-> [c \in Threads |->
                            LET coll == Collection(IF c = 1 THEN MethodTree(ev, g1, g2)
                                                   ELSE MethodTree(ev, g2, g1))
                            IN  [pc |-> "idle", at |-> 0, fr |-> frs[c], st |-> coll,
                                 init |-> coll]],
                  mixed |-> FALSE]
    /\ sel = <<>> /\ mem = <<>> /\ junk = -1
    /\ pool = <<>> /\ err = "none" /\ log = <<>> /\ ub = FALSE
    /\ call = NoCall /\ frame = 0 /\ hist = NoHist /\ help = NoHelp /\ guard = NoGuard

NextThreads == \E c \in Threads : BeginEvaluate(c) \/ EvaluateRoot(c) \/ RefreshSelections(c)

SpecThreads == InitThreads /\ [][NextThreads]_vars

(* ------------------------------ modifiers ------------------------------ *)
\* Node 1 is a position-valued modifier that keeps the positions of Sm,
\* node 2 its child: a method of value type t evaluated over the group
\* of the call (atomval), a single-valued method evaluated once per
\* frame, or constant positions (t = "POS_VALUE", kind "const").  initframe: the modifier has an
\* init_frame callback and SEL_INITFRAME set.
ModifierTree(t, kind, atomval, S, Sm, initframe) ==
    <<[t_selelem EXCEPT !.type = "SEL_MODIFIER", !.vtype = "POS_VALUE", !.evaluate = "modifier",
                        !.child = 2, !.ptr = 1, !.S = Sm, !.init_frame = initframe,
                        !.flags = IF initframe THEN {"SEL_INITFRAME"} ELSE {}],
      IF kind = "const"
      THEN [t_selelem EXCEPT !.type = "SEL_CONST", !.vtype = t, !.ptr = 2, !.S = S]
      ELSE [t_selelem EXCEPT !.type = "SEL_EXPRESSION", !.vtype = t, !.evaluate = "method",
                             !.pc = (t = "POS_VALUE"), !.ptr = 2, !.S = S,
                             !.f = [i \in Atoms |-> 10 * i],
                             !.flags = IF atomval THEN {"SEL_ATOMVAL"} ELSE {"SEL_SINGLEVAL"}]>>

ModifierChildTypes == {"POS_VALUE", "GROUP_VALUE", "INT_VALUE"}

InitModifier ==
    /\ \E t \in ModifierChildTypes, kind \in {"method", "const"}, atomval \in BOOLEAN,
          S \in SUBSET Atoms, Sm \in {Atoms, Atoms \ {0}}, initframe \in BOOLEAN :
           /\ kind = "const" => (t = "POS_VALUE" /\ atomval)
           /\ ~atomval => IsVector(t)
           /\ sel = ModifierTree(t, kind, atomval, S, Sm, initframe)
           /\ mem = <<<<>>, IF kind = "const" THEN AsGroup(S)
                            ELSE IF IsVector(t) THEN [k \in 1 .. MaxAtom |-> -1] ELSE <<>>>>
    /\ junk = -1
    /\ InitCommon

\* A caller evaluates the modifier over g.
EvaluateModifier(g) ==
    /\ sel[1].evaluate = "modifier"
    /\ err = "none"
    /\ Commit(Evaluate(State(NoFail), 1, g), 1, g)
    /\ UNCHANGED <<frame, hist, junk>>

NextModifier == \E g \in Groups : EvaluateModifier(g)

SpecModifier == InitModifier /\ [][NextModifier]_vars

(* --------------------- parameters and frame flags ---------------------- *)
\* Node 1 is an element with parameters: a group-valued method, with or
\* without a position calculator (pc), or a position modifier; initframe:
\* its method has an init_frame callback.  Its first parameter, node 2, is
\* a position-valued method with SEL_ATOMVAL; its second, node 3, is a
\* single-valued integer method with an init_frame callback.  Node 4 is
\* the root of the selection and evaluates node 1 over g1.
ParamTree(kind, initframe, pc, g1) ==
    <<[t_selelem EXCEPT !.type = IF kind = "modifier" THEN "SEL_MODIFIER" ELSE "SEL_EXPRESSION",
                        !.vtype = IF kind = "modifier" THEN "POS_VALUE" ELSE "GROUP_VALUE",
                        !.evaluate = kind, !.child = 2, !.ptr = 1, !.S = Atoms \ {0},
                        !.init_frame = initframe, !.pc = pc],
      [t_selelem EXCEPT !.type = "SEL_EXPRESSION", !.vtype = "POS_VALUE", !.evaluate = "method",
                        !.pc = TRUE, !.ptr = 2, !.S = Atoms, !.next = 3,
                        !.flags = {"SEL_ATOMVAL"}],
      [t_selelem EXCEPT !.type = "SEL_EXPRESSION", !.vtype = "INT_VALUE", !.evaluate = "method",
                        !.ptr = 3, !.f = [i \in Atoms |-> 10 * i], !.init_frame = TRUE,
                        !.flags = {"SEL_SINGLEVAL"}],
      [t_selelem EXCEPT !.type = "SEL_ROOT", !.vtype = "NO_VALUE", !.evaluate = "root",
                        !.child = 1, !.cgrp = g1]>>

\* Largest number of evaluations of node 1 that callers add to a frame.
MaxCalls == 2

InitParam ==
    /\ \E kind \in {"method", "modifier"}, initframe \in BOOLEAN, pc \in BOOLEAN,
          g1 \in RootGroups :
           /\ kind = "modifier" => ~pc
           /\ sel = ParamTree(kind, initframe, pc, g1)
    /\ junk = -1
    /\ mem = <<<<>>, <<>>, [k \in 1 .. MaxAtom |-> junk]>>
    /\ InitCommon

InitParams == InitParam \/ InitMethod

\* The evaluations of node n in the log l.
EvaluationsOf(l, n) == {i \in DOMAIN l : l[i].node = n /\ l[i].what = "evaluate"}

\* SelectionEvaluator::evaluate up to the loop over the roots: the flag
\* walk.  From here on the log keeps everything that happens in the frame.
BeginFrame(root) ==
    /\ sel[root].type = "SEL_ROOT"
    /\ call.fn # "init_frame_eval" /\ err = "none"
    /\ frame < MaxFrames
    /\ LET r == init_frame_eval(State(NoFail), root)
       IN  /\ sel' = r.sel
           /\ log' = r.log
    /\ call' = [NoCall EXCEPT !.fn = "init_frame_eval", !.node = root]
    /\ UNCHANGED <<mem, pool, err, ub, frame, hist, junk, run, help, guard>>

\* The rest of SelectionEvaluator::evaluate: the loop over the roots and
\* the refresh of the selections.
EvaluateRoots(root) ==
    /\ call.fn = "init_frame_eval" /\ call.node = root
    /\ Commit(post_frame(evaluate_roots([State(NoFail) EXCEPT !.log = log], root)), root, NULL)
    /\ frame' = frame + 1
    /\ UNCHANGED <<hist, junk>>

\* Between two frames a caller evaluates node 1 over g once more; the
\* init_frame callback of node 1 may fail.
EvaluateParent(g) ==
    /\ sel[1].evaluate \in {"method", "modifier"}
    /\ call.fn # "init_frame_eval" /\ err = "none"
    /\ frame >= 1
    /\ Cardinality(EvaluationsOf(log, 1)) <= MaxCalls
    /\ \E fail \in {NoFail, <<1, "init_frame">>} :
           Commit(Evaluate([State(fail) EXCEPT !.log = log], 1, g), 1, g)
    /\ UNCHANGED <<frame, hist, junk>>

NextParams ==
    \/ BeginFrame(4)
    \/ EvaluateRoots(4)
    \/ \E g \in RootGroups : EvaluateParent(g)

SpecParams == InitParams /\ [][NextParams]_vars

(* ------------------------------ references ----------------------------- *)
\* The subexpression tree with the reference 3, evaluated by the root 5
\* over gsel.  ev is the evaluator of the subexpression: the general one;
\* "subexpr_simple" for a subexpression with a single reference, which
\* then has the evaluator "ref_simple"; or "subexpr_staticeval" for one
\* with a static evaluation group, all atoms, over which its root 4
\* evaluates it.  Only under the general evaluator is the method 2
\* pool-backed; under the other two it stores its value in the storage
\* of the subexpression.  param: the reference supplies the value of a
\* method parameter, which has a pointer for the count if nvalptr.
RefTree(t, S, gsel, ev, param, nvalptr) ==
    [n \in 1 .. 5 |->
        LET e == SubExprTree(t, S, gsel)[n]
        IN  CASE n = 1 -> [e EXCEPT !.evaluate = ev]
              [] n = 2 -> [e EXCEPT !.mempool = (ev = "subexpr"),
                                    !.ptr = IF ev = "subexpr" THEN @ ELSE 1]
              [] n = 3 -> [e EXCEPT !.evaluate = IF ev = "subexpr_simple" THEN "ref_simple" ELSE "ref",
                                    !.param = param, !.nvalptr = nvalptr]
              [] n = 4 -> [e EXCEPT !.cgrp = IF ev = "subexpr_staticeval" THEN AsGroup(Atoms) ELSE <<>>]
              [] OTHER -> e]

InitRefs ==
    /\ \E t \in {"INT_VALUE", "GROUP_VALUE"}, gsel \in RootGroups \cup {NULL},
          ev \in {"subexpr", "subexpr_simple", "subexpr_staticeval"},
          param \in BOOLEAN, nvalptr \in BOOLEAN :
           /\ nvalptr => param
           /\ sel = RefTree(t, IF t = "INT_VALUE" THEN Atoms ELSE Atoms \ {0}, gsel, ev,
                            param, nvalptr)
    /\ junk = -1
    /\ mem = SubExprMem(sel[1].vtype)
    /\ InitCommon

\* A caller evaluates the reference 3 over g, or with the null group,
\* within the current frame.
EvaluateReference(g) ==
    /\ sel[3].type = "SEL_SUBEXPRREF"
    /\ err = "none"
    /\ CallInFrame(3, g, NoFail)

\* The groups a reference is evaluated over: no atom, the first atom, a
\* group with a gap, a group that starts after the first atom, every
\* atom, and the null group.
RefGroups == {<<>>, <<0>>, <<0, 2>>, <<1, 2>>, AsGroup(Atoms), NULL}

NextRefs ==
    \/ EvaluateFrame(4)
    \/ \E g \in RefGroups : EvaluateReference(g)

SpecRefs == InitRefs /\ [][NextRefs]_vars

(* -------------------------------- roots -------------------------------- *)
\* Node 2 is a root with the cached group cg and node 1 its child: a
\* constant group without an evaluator (kind "const"), a group-valued
\* method ("group") or a single-valued integer method ("single").
RootTree(kind, cg) ==
    <<CASE kind = "const" -> [t_selelem EXCEPT !.cgrp = AsGroup(Atoms), !.ptr = 1]
        [] kind = "group" -> [t_selelem EXCEPT !.type = "SEL_EXPRESSION", !.evaluate = "method",
                                               !.S = Atoms \ {0}, !.ptr = 1]
        [] kind = "single" -> [t_selelem EXCEPT !.type = "SEL_EXPRESSION", !.vtype = "INT_VALUE",
                                                !.evaluate = "method", !.ptr = 1,
                                                !.f = [i \in Atoms |-> 10 * i + 5],
                                                !.flags = {"SEL_SINGLEVAL"}],
      [t_selelem EXCEPT !.type = "SEL_ROOT", !.vtype = "NO_VALUE", !.evaluate = "root",
                        !.child = 1, !.cgrp = cg]>>

\* A group-valued method is not given the null group.
InitRoot ==
    /\ \E kind \in {"const", "group", "single"}, cg \in Groups \cup {NULL} :
           /\ (kind = "group") => cg # NULL
           /\ sel = RootTree(kind, cg)
           /\ mem = <<IF kind = "single" THEN [k \in 1 .. MaxAtom |-> -1]
                      ELSE IF kind = "const" THEN AsGroup(Atoms) ELSE <<>>>>
    /\ junk = -1
    /\ InitCommon

\* A caller invokes the evaluator of the root 2 with the group g.
EvaluateRootOver(g) ==
    /\ sel[2].evaluate = "root"
    /\ err = "none"
    /\ Commit(Evaluate(State(NoFail), 2, g), 2, g)
    /\ UNCHANGED <<frame, hist, junk>>

NextRoot == \E g \in Groups \cup {NULL} : EvaluateRootOver(g)

SpecRoot == InitRoot /\ [][NextRoot]_vars

(* ------------------- static evaluation group --------------------------- *)
\* The reference tree with a subexpression that has the static-group
\* evaluator; its root 4 evaluates it over g4.
InitStatic ==
    /\ \E t \in {"INT_VALUE", "GROUP_VALUE"}, g4 \in RootGroups, gsel \in RootGroups :
           sel = [RefTree(t, IF t = "INT_VALUE" THEN Atoms ELSE Atoms \ {0}, gsel,
                          "subexpr_staticeval", FALSE, FALSE) EXCEPT ![4].cgrp = g4]
    /\ junk = -1
    /\ mem = SubExprMem(sel[1].vtype)
    /\ InitCommon

\* A caller evaluates the subexpression 1 over g within the current frame.
EvaluateStatic(g) ==
    /\ sel[1].evaluate = "subexpr_staticeval"
    /\ err = "none"
    /\ CallInFrame(1, g, NoFail)

NextStatic ==
    \/ EvaluateFrame(4)
    \/ \E g \in Groups : EvaluateStatic(g)

SpecStatic == InitStatic /\ [][NextStatic]_vars

(* --------------------- children without evaluator --------------------- *)
\* A boolean node 1 with evaluator op over the children 2 .. : child k is
\* a pooled method that accepts Ss[k] if evals[k], and otherwise a
\* constant that the compiler has folded: it has no evaluator and its
\* value group Ss[k] is stored already.
ElidedTree(op, evals, Ss) ==
    [n \in 1 .. (Len(Ss) + 1) |->
        IF n = 1
        THEN [t_selelem EXCEPT !.type = "SEL_BOOLEAN", !.evaluate = op, !.child = 2, !.ptr = 1]
        ELSE IF evals[n - 1]
             THEN GroupLeaf("method", Ss[n - 1], IF n <= Len(Ss) THEN n + 1 ELSE 0, n)
             ELSE [GroupLeaf("static", Ss[n - 1], IF n <= Len(Ss) THEN n + 1 ELSE 0, n)
                      EXCEPT !.evaluate = "none"]]

\* The sets the children accept.
ElidedSets == {{0}, Atoms \ {0}}

InitElided ==
    /\ \E op \in {"and", "or"}, k \in 1 .. (MaxChildren + 1) :
           \E evals \in [1 .. k -> BOOLEAN], Ss \in [1 .. k -> ElidedSets] :
               /\ sel = ElidedTree(op, evals, Ss)
               /\ mem = [p \in 1 .. (k + 1) |->
                             IF p > 1 /\ ~evals[p - 1] THEN AsGroup(Ss[p - 1]) ELSE <<>>]
    /\ junk = -1
    /\ InitCommon

NextElided ==
    \/ \E g \in Groups : EvaluateAnd(g)
    \/ \E g \in Groups : EvaluateOr(g)

SpecElided == InitElided /\ [][NextElided]_vars

(* ---------------------------- scope guards ----------------------------- *)
\* The elements a guard can be used on: 1 and 2 are integer-valued with
\* storage of their own (2 with storage it borrowed: nalloc -1), 3 is an
\* integer-valued element that takes its values from the pool, 4 is
\* group-valued.
GuardTree ==
    <<[t_selelem EXCEPT !.vtype = "INT_VALUE", !.ptr = 1, !.nalloc = MaxAtom],
      [t_selelem EXCEPT !.vtype = "INT_VALUE", !.ptr = 2, !.nalloc = -1],
      [t_selelem EXCEPT !.vtype = "INT_VALUE", !.mempool = TRUE],
      [t_selelem EXCEPT !.vtype = "GROUP_VALUE", !.ptr = 4, !.nalloc = 1]>>

InitScope ==
    /\ sel = GuardTree
    /\ junk = -1
    /\ mem = <<[k \in 1 .. MaxAtom |-> 0], [k \in 1 .. MaxAtom |-> 0], <<>>, <<>>>>
    /\ InitCommon

\* SelelemTemporaryValueAssigner assigner; (a caller that caught the
\* exception of an earlier scope starts anew).
ConstructAssigner ==
    /\ ~guard.assigner.live /\ err # "Abort"
    /\ err = "Plugin" => guard.order = <<>>
    /\ guard' = [guard EXCEPT !.assigner = [live |-> TRUE, sel_ |-> 0, old_ptr_ |-> 0, old_nalloc_ |-> 0],
                              !.order = Append(@, "assigner"),
                              !.last = [op |-> "assigner", n |-> 0, v |-> 0]]
    /\ err' = "none"
    /\ UNCHANGED <<sel, mem, pool, log, ub, call, frame, hist, junk, run, help>>

\* assigner.assign(sel, vsource)
Assign(n, vsource) ==
    /\ guard.assigner.live /\ err = "none"
    /\ LET r == IF guard.assigner.sel_ # 0 THEN Throw(State(NoFail), "Abort")
                ELSE SelelemTemporaryValueAssigner_assign(State(NoFail), n, vsource)
       IN  /\ sel' = r.sel
           /\ err' = r.err
           /\ guard' = [guard EXCEPT !.assigner = IF Ok(r)
                                                  THEN [live |-> TRUE, sel_ |-> n,
                                                        old_ptr_ |-> sel[n].ptr,
                                                        old_nalloc_ |-> sel[n].nalloc]
                                                  ELSE @,
                                     !.at = IF Ok(r) THEN sel ELSE @,
                                     !.last = [op |-> "assign", n |-> n, v |-> vsource]]
    /\ UNCHANGED <<mem, pool, log, ub, call, frame, hist, junk, run, help>>

\* A store of x into value k of the element the assigner redirected.
WriteThrough(k, x) ==
    /\ guard.assigner.sel_ # 0 /\ err = "none"
    /\ ReadOk(State(NoFail), sel[guard.assigner.sel_].ptr, k)
    /\ mem' = WriteAt(State(NoFail), sel[guard.assigner.sel_].ptr, k, x).mem
    /\ guard' = [guard EXCEPT !.last = [op |-> "write", n |-> guard.assigner.sel_, v |-> k]]
    /\ UNCHANGED <<sel, pool, err, log, ub, call, frame, hist, junk, run, help>>

\* MempoolSelelemReserver reserver;
ConstructReserver ==
    /\ ~guard.reserver.live /\ err # "Abort"
    /\ err = "Plugin" => guard.order = <<>>
    /\ guard' = [guard EXCEPT !.reserver = [live |-> TRUE, sel_ |-> 0],
                              !.order = Append(@, "reserver"),
                              !.last = [op |-> "reserver", n |-> 0, v |-> 0]]
    /\ err' = "none"
    /\ UNCHANGED <<sel, mem, pool, log, ub, call, frame, hist, junk, run, help>>

\* reserver.reserve(sel, count)
Reserve(n, count) ==
    /\ guard.reserver.live /\ err = "none"
    /\ LET r == IF guard.reserver.sel_ # 0 THEN Throw(State(NoFail), "Abort")
                ELSE MempoolSelelemReserver_reserve(State(NoFail), n, count)
       IN  /\ sel' = r.sel
           /\ mem' = r.mem
           /\ pool' = r.pool
           /\ err' = r.err
           /\ log' = IF Ok(r) THEN r.log ELSE log
           /\ guard' = [guard EXCEPT !.reserver.sel_ = IF Ok(r) THEN n ELSE @,
                                     !.last = [op |-> "reserve", n |-> n, v |-> count]]
    /\ UNCHANGED <<ub, call, frame, hist, junk, run, help>>

\* Something between the construction and the end of the scope throws.
ThrowInScope ==
    /\ guard.order # <<>> /\ err = "none"
    /\ err' = "Plugin"
    /\ guard' = [guard EXCEPT !.last = [op |-> "throw", n |-> 0, v |-> 0]]
    /\ UNCHANGED <<sel, mem, pool, log, ub, call, frame, hist, junk, run, help>>

\* The end of the scope, reached by return or by unwinding, destroys the
\* object constructed last: ~SelelemTemporaryValueAssigner() ...
DestroyAssigner ==
    /\ guard.order # <<>> /\ guard.order[Len(guard.order)] = "assigner"
    /\ err # "Abort"
    /\ LET a == guard.assigner
           r == IF a.sel_ # 0
                THEN SelelemTemporaryValueAssigner_dtor(State(NoFail), a.sel_, a.old_ptr_, a.old_nalloc_)
                ELSE State(NoFail)
       IN  sel' = r.sel
    /\ guard' = [guard EXCEPT !.assigner.live = FALSE,
                              !.order = SubSeq(@, 1, Len(@) - 1),
                              !.last = [op |-> "~assigner", n |-> guard.assigner.sel_, v |-> 0]]
    /\ UNCHANGED <<mem, pool, err, log, ub, call, frame, hist, junk, run, help>>

\* ... or ~MempoolSelelemReserver().
DestroyReserver ==
    /\ guard.order # <<>> /\ guard.order[Len(guard.order)] = "reserver"
    /\ err # "Abort"
    /\ LET r == IF guard.reserver.sel_ # 0
                THEN MempoolSelelemReserver_dtor(State(NoFail), guard.reserver.sel_)
                ELSE State(NoFail)
       IN  /\ sel' = r.sel
           /\ mem' = r.mem
           /\ pool' = r.pool
    /\ guard' = [guard EXCEPT !.reserver.live = FALSE,
                              !.order = SubSeq(@, 1, Len(@) - 1),
                              !.last = [op |-> "~reserver", n |-> guard.reserver.sel_, v |-> 0]]
    /\ UNCHANGED <<err, log, ub, call, frame, hist, junk, run, help>>

NextScope ==
    \/ ConstructAssigner
    \/ \E n \in DOMAIN sel, vsource \in DOMAIN sel : Assign(n, vsource)
    \/ \E k \in {0, MaxAtom - 1} : WriteThrough(k, 7)
    \/ ConstructReserver
    \/ \E n \in DOMAIN sel, count \in {0, MaxAtom} : Reserve(n, count)
    \/ ThrowInScope
    \/ DestroyAssigner
    \/ DestroyReserver

SpecScope == InitScope /\ [][NextScope]_vars

(* ------------------------- command-line help --------------------------- *)
\* Largest number of writeHelp calls on one writer.
MaxHelp == 2

HelpOutputFormats == {"eHelpOutputFormat_Console", "eHelpOutputFormat_Man", "eHelpOutputFormat_Html"}

\* The options a program may declare: an input file, a selection with
\* two values, a hidden flag and a time.
DeclaredOptions ==
    <<[name |-> "f", type |-> "file", hidden |-> FALSE, valueCount |-> 1],
      [name |-> "select", type |-> "selection", hidden |-> FALSE, valueCount |-> 2],
      [name |-> "debug", type |-> "bool", hidden |-> TRUE, valueCount |-> 1],
      [name |-> "b", type |-> "real", hidden |-> FALSE, valueCount |-> 1]>>

\* CommandLineHelpWriter(options): nothing shown beyond the tables, the
\* output file of the context still empty.
InitHelp ==
    /\ \E title \in {"", "title"}, description \in {"", "description"},
          chosen \in SUBSET (DOMAIN DeclaredOptions) :
           help = [options |-> [title |-> title, description |-> description,
                                opts |-> SelectSeq(DeclaredOptions,
                                                   LAMBDA o : \E i \in chosen : DeclaredOptions[i] = o)],
                   bShowDescriptions |-> FALSE, bShowHidden |-> FALSE, didOutput |-> {},
                   file |-> <<>>, err |-> "none", outputFormat |-> "none", calls |-> 0]
    /\ sel = <<>> /\ mem = <<>> /\ junk = -1
    /\ pool = <<>> /\ err = "none" /\ log = <<>> /\ ub = FALSE
    /\ call = NoCall /\ frame = 0 /\ hist = NoHist /\ run = NoRun /\ guard = NoGuard

NoEvaluation ==
    /\ help # NoHelp
    /\ UNCHANGED <<sel, mem, pool, err, log, ub, call, frame, hist, junk, run, guard>>

setShowHidden(bSet) ==
    /\ NoEvaluation
    /\ help.calls = 0
    /\ help' = [help EXCEPT !.bShowHidden = bSet]

setShowDescriptions(bSet) ==
    /\ NoEvaluation
    /\ help.calls = 0
    /\ help' = [help EXCEPT !.bShowDescriptions = bSet]

WriteHelp(outputFormat) ==
    /\ NoEvaluation
    /\ help.calls < MaxHelp
    /\ help' = [writeHelp(help, outputFormat) EXCEPT !.outputFormat = outputFormat,
                                                     !.calls = @ + 1]

NextHelp ==
    \/ \E bSet \in BOOLEAN : setShowHidden(bSet)
    \/ \E bSet \in BOOLEAN : setShowDescriptions(bSet)
    \/ \E outputFormat \in HelpOutputFormats : WriteHelp(outputFormat)

SpecHelp == InitHelp /\ [][NextHelp]_vars

(* ------------------------ boolean evaluators --------------------------- *)
\* The atoms of the group of the last call that every child accepts, and
\* those that some child accepts.
AcceptedByAll == {a \in SeqSet(call.g) : \A c \in Children(call.node) : a \in sel[c].S}

AcceptedBySome == {a \in SeqSet(call.g) : \E c \in Children(call.node) : a \in sel[c].S}

Evaluations(c) == {i \in DOMAIN log : log[i].node = c /\ log[i].what = "evaluate"}

\* C1: after _gmx_sel_evaluate_and over g, whatever the short-circuit
\* skipped, the value group of the node is g restricted to the atoms that
\* all children accept (the intersection of the children's results over g).
C1_AndIsIntersection ==
    (call.fn = "and" /\ err = "none") => mem[sel[call.node].ptr] = AsGroup(AcceptedByAll)

\* An AND over two or more children that keeps one atom of a larger group.
C1_Witness ==
    /\ call.fn = "and" /\ err = "none"
    /\ Cardinality(Children(call.node)) >= 2
    /\ Len(call.g) >= 2
    /\ Len(mem[sel[call.node].ptr]) = 1

\* C2: after _gmx_sel_evaluate_or over g the value group of the node is g
\* restricted to the atoms that some child accepts (the union of the
\* children's sets restricted to g).
C2_OrIsUnion ==
    (call.fn = "or" /\ err = "none") => mem[sel[call.node].ptr] = AsGroup(AcceptedBySome)

\* An OR whose second child contributes an atom below one of the first.
C2_Witness ==
    /\ call.fn = "or" /\ err = "none"
    /\ Cardinality(Children(call.node)) >= 2
    /\ \E a \in sel[2].S, b \in sel[3].S \ sel[2].S : b < a /\ {a, b} \subseteq SeqSet(call.g)
    /\ Evaluations(3) # {}

\* C3: after _gmx_sel_evaluate_not over g the value group of the node is g
\* minus the child's result over g, and the child was evaluated exactly
\* once, over g.
C3_NotIsDifference ==
    (call.fn = "not" /\ err = "none") =>
        /\ mem[sel[call.node].ptr] = AsGroup(SeqSet(call.g) \ sel[sel[call.node].child].S)
        /\ Cardinality(Evaluations(sel[call.node].child)) = 1
        /\ \A i \in Evaluations(sel[call.node].child) : log[i].g = call.g

\* A NOT that removes some atoms of g and keeps others.
C3_Witness ==
    /\ call.fn = "not" /\ err = "none"
    /\ Len(mem[sel[call.node].ptr]) > 0
    /\ Len(mem[sel[call.node].ptr]) < Len(call.g)

(* --------------------------- sorted groups ----------------------------- *)
\* C4: every group an evaluator produced (constant group, NOT, AND, OR,
\* group-valued SubExpr-general and reference) and every cached group cgrp
\* is strictly increasing, hence free of duplicates.
C4_SortedGroups ==
    \A n \in DOMAIN sel :
        /\ sel[n].cgrp # NULL => IsSorted(sel[n].cgrp)
        /\ (sel[n].vtype = "GROUP_VALUE" /\ sel[n].ptr \in DOMAIN mem) => IsSorted(mem[sel[n].ptr])

\* A reference call whose missing part is the atom 0, below the atoms the
\* subexpression had cached, so that the merges have to reorder.
C4_Witness ==
    /\ call.fn = "ref" /\ err = "none"
    /\ sel[1].vtype = "GROUP_VALUE"
    /\ Len(sel[1].cgrp) >= 2
    /\ Len(mem[1]) >= 2
    /\ \E i \in DOMAIN log : log[i].node = 2 /\ log[i].what = "evaluate" /\ log[i].g = <<0>>

(* ----------------------- SubExpr-general caching ----------------------- *)
\* C5: after a call of the vector-valued SubExpr-general node 1 the value
\* at position k is f(cgrp.index[k]) for every position k of cgrp.
C5_ValuesAligned ==
    (call.fn = "subexpr" /\ err = "none" /\ IsVector(sel[1].vtype)) =>
        \A k \in 1 .. Len(sel[1].cgrp) : mem[sel[1].ptr][k] = sel[2].f[sel[1].cgrp[k]]

\* C6: within a frame the cached group of the SubExpr-general node 1 is,
\* as a set, the union of the groups of the calls made so far.
C6_CgrpIsUnion ==
    (call.fn = "subexpr" /\ err = "none") => SeqSet(sel[1].cgrp) = hist.seen

\* A call whose group is a proper part of what has accumulated.
C6_Witness ==
    /\ call.fn = "subexpr" /\ err = "none"
    /\ Cardinality(hist.seen) >= 2
    /\ SeqSet(call.g) # hist.seen
    /\ \E i \in DOMAIN log : log[i].node = 2 /\ log[i].what = "evaluate"

\* C7: a call of SubExpr-general over the group of the call before it, in
\* the same frame, leaves cgrp and the values of the node as they were.
C7_Idempotent ==
    [][(/\ call.fn = "subexpr" /\ err = "none"
        /\ call'.fn = "subexpr" /\ call'.g = call.g)
       => (/\ sel'[1].cgrp = sel[1].cgrp
           /\ sel'[1].ptr = sel[1].ptr
           /\ mem'[sel[1].ptr] = mem[sel[1].ptr]
           /\ err' = "none")]_vars

\* A second call over the same non-empty group of a vector-valued node.
C7_Witness ==
    /\ call.fn = "subexpr" /\ err = "none"
    /\ hist.repeat
    /\ IsVector(sel[1].vtype)
    /\ Len(call.g) >= 1

(* ------------------------------ init_frame ----------------------------- *)
\* C8: the init_frame callback of a method runs exactly once in every frame
\* in which the method is evaluated, within the first evaluation of that
\* frame and not at all otherwise, so that over the frames so far it ran
\* once per frame that evaluated the method.
C8_InitFrameOncePerFrame ==
    /\ hist.inits = (IF hist.evald THEN 1 ELSE 0)
    /\ ~hist.late
    /\ hist.total = hist.active

\* The second frame in which the method was evaluated, after a call that
\* evaluated it again through a reference.
C8_Witness ==
    /\ InitFrameNodes # {}
    /\ hist.active = 2 /\ hist.total = 2
    /\ call.fn = "ref"
    /\ \E i \in DOMAIN log : log[i].what = "evaluate" /\ log[i].node \in InitFrameNodes
    /\ \A i \in DOMAIN log : log[i].what # "init_frame"

(* ------------------------------ arithmetic ----------------------------- *)
\* C9: for a binary arithmetic element that is not SINGLE_VAL, with a
\* SINGLE_VAL left operand of value l and a per-atom right operand, the
\* result at position i is op(l, right[i]) for every position of the
\* group, pool-backed operands included.
C9_ScalarBroadcast ==
    (/\ call.fn = "arithmetic" /\ err = "none"
     /\ sel[1].arith # "ARITH_NEG"
     /\ "SEL_SINGLEVAL" \notin sel[1].flags
     /\ "SEL_SINGLEVAL" \in sel[2].flags
     /\ "SEL_SINGLEVAL" \notin sel[3].flags)
    => \A i \in 1 .. Len(call.g) :
           mem[1][i] = ArithOp(sel[1].arith, sel[2].f[0], sel[3].f[call.g[i]])

(* ----------------------------- pool balance ---------------------------- *)
\* The log position of the invocation that the return at position j ends.
Entry(j) ==
    CHOOSE i \in 1 .. (j - 1) :
        /\ log[i].node = log[j].node /\ log[i].what = "evaluate"
        /\ \A k \in (i + 1) .. (j - 1) : ~(log[k].node = log[j].node /\ log[k].what = "evaluate")

\* C10: when control leaves an evaluator call, by return or by an error
\* (NotImplemented, Internal, a failing plugin callback), as many pool
\* reservations are active as when the call began; this holds for the
\* call made by the caller and for every call nested in it.
C10_PoolBalance ==
    /\ call.fn # "none" => Len(pool) = call.pool0
    /\ \A j \in DOMAIN log : log[j].what = "return" => log[j].pool = log[Entry(j)].pool

\* A plugin failure inside the subexpression while the scratch group and
\* the child's scratch were both reserved.
C10_Witness ==
    /\ call.fn = "subexpr" /\ err = "Plugin"
    /\ \E i \in DOMAIN log : log[i].what = "update" /\ log[i].pool = call.pool0 + 2
    /\ Len(pool) = call.pool0

(* -------------------------- redirected storage ------------------------- *)
\* Node n has the storage pointer and the capacity it had before the step.
StorageKept(n) == sel'[n].ptr = sel[n].ptr /\ sel'[n].nalloc = sel[n].nalloc

\* Node n is the target of a once-only reference, or the child of that
\* target, and the evaluator of the reference ran in this step.
LentByReference(n) ==
    \E r \in DOMAIN sel :
        /\ sel[r].evaluate = "ref_simple"
        /\ n \in {sel[r].child, sel[sel[r].child].child}
        /\ \E i \in DOMAIN log' : log'[i].node = r /\ log'[i].what = "evaluate"

\* C11 as stated: whatever evaluator is called, and whether it returns or
\* fails, every node ends the call with the storage pointer and capacity
\* it had before the call.
C11_StorageRestored == [][\A n \in DOMAIN sel : StorageKept(n)]_vars

\* C11 as the code has it: every node ends a call with its pre-call storage
\* pointer and capacity, on return and on error, except the target of a
\* once-only reference and the child of that target, which stay pointed at
\* the storage the reference had while its evaluator ran (that of the
\* arithmetic element called, which the reference was redirected to).
C11_GuardedStorageRestored ==
    [][\A n \in DOMAIN sel :
          IF LentByReference(n)
          THEN sel'[n].ptr = sel[call'.node].ptr /\ sel'[n].ptr # sel[n].ptr
          ELSE StorageKept(n)]_vars

\* A pool-backed left operand wrote its values into the arithmetic
\* element's storage, the right operand's callback then failed, and the
\* left operand is without storage again.
C11_Witness ==
    /\ call.fn = "arithmetic" /\ err = "Plugin"
    /\ sel[2].evaluate = "method" /\ sel[2].mempool
    /\ sel[2].ptr = 0 /\ sel[2].nalloc = 0
    /\ Len(call.g) > 0
    /\ mem[1][1] = sel[2].f[IF "SEL_SINGLEVAL" \in sel[2].flags THEN 0 ELSE call.g[1]]

(* ------------------------- caches and frames --------------------------- *)
\* C12 as stated: in every frame the first evaluation of the subexpression
\* finds its cgrp empty, whatever the order of the roots.
C12_FirstEvaluationFindsEmptyCache == hist.first \in {NULL, <<>>}

\* C12 as the code has it: when the root of the subexpression comes before
\* the root that reaches it through a reference, the first evaluation of
\* the subexpression in every frame finds its cgrp empty.
C12_EmptyCacheWhenRootFirst == sel[4].next = 5 => hist.first \in {NULL, <<>>}

\* The second frame of a collection whose subexpression root comes first:
\* the reference evaluated the subexpression, which found nothing cached
\* and has cached the group since.
C12_Witness ==
    /\ frame = 2 /\ call.fn = "evaluate"
    /\ sel[4].next = 5 /\ sel[5].cgrp # <<>>
    /\ hist.first = <<>>
    /\ sel[1].cgrp # <<>>

(* ----------------------------- determinism ----------------------------- *)
\* C13: a run of evaluate() that follows another run on the same
\* collection, with the same frame input and pure methods, leaves every
\* node with the values and the number of values the run before it left.
C13_Deterministic ==
    [][(call.fn = "evaluate" /\ call'.fn = "evaluate" /\ err = "none" /\ err' = "none")
       => (mem' = mem /\ \A n \in DOMAIN sel : sel'[n].nr = sel[n].nr)]_vars

(* --------------------------- order in a frame -------------------------- *)
\* The roots from n on, in list order, that have an evaluator.
RECURSIVE RootsFrom(_)
RootsFrom(n) ==
    IF n = 0 THEN <<>>
    ELSE (IF sel[n].evaluate # "none" THEN <<n>> ELSE <<>>) \o RootsFrom(sel[n].next)

\* The log entries that are invocations of the evaluator of a root.
RootEvaluations ==
    SelectSeq(log, LAMBDA e : e.what = "evaluate" /\ e.node \in DOMAIN sel
                              /\ sel[e.node].type = "SEL_ROOT")

\* C14: in one evaluate() the roots that have an evaluator are evaluated in
\* list order, each exactly once and with a null group, and the selections
\* are refreshed (masses and charges, then covered fraction) only after the
\* last root has returned.
C14_FrameOrder ==
    (call.fn = "evaluate" /\ err = "none") =>
        /\ [i \in 1 .. Len(RootEvaluations) |-> RootEvaluations[i].node] = RootsFrom(FirstRoot)
        /\ \A i \in 1 .. Len(RootEvaluations) : RootEvaluations[i].g = NULL
        /\ Len(log) >= 2
        /\ log[Len(log) - 1].what = "refreshMassesAndCharges"
        /\ log[Len(log)].what = "updateCoveredFractionForFrame"
        /\ \A i \in 1 .. (Len(log) - 2) :
               log[i].what \notin {"refreshMassesAndCharges", "updateCoveredFractionForFrame"}

\* A frame in which the first root has no evaluator and the two roots
\* after it evaluated their references over atoms.
C14_Witness ==
    /\ call.fn = "evaluate" /\ err = "none" /\ frame = 2
    /\ RootsFrom(FirstRoot) = <<5, 6>>
    /\ \E i, j \in DOMAIN log :
           /\ i < j
           /\ log[i].node = 3 /\ log[i].what = "evaluate" /\ log[i].g # <<>>
           /\ log[j].node = 7 /\ log[j].what = "evaluate" /\ log[j].g # <<>>

(* ----------------------- independent collections ----------------------- *)
\* What evaluate() leaves of the collection of thread c when nothing else
\* runs.
Sequential(c) == SelectionEvaluator_evaluate([run.th[c].init EXCEPT !.fr = run.th[c].fr], 4)

NeedsMerge(g) == sel[1].cgrp # <<>> /\ ~(SeqSet(g) \subseteq SeqSet(sel[1].cgrp))

\* C16 as stated: every call of the position-valued SubExpr-general node 1
\* raises NotImplemented, whatever the group and the cached group.
C16_PosAlwaysNotImplemented ==
    [][(call'.fn = "subexpr" /\ sel[1].vtype = "POS_VALUE") => err' = "NotImplemented"]_vars

\* C16: a call of the position-valued SubExpr-general node 1 raises
\* NotImplemented exactly when it has to merge; otherwise it returns
\* normally.
C16_PosMergeNotImplemented ==
    [][(call'.fn = "subexpr" /\ sel[1].vtype = "POS_VALUE") =>
           err' = IF NeedsMerge(call'.g) THEN "NotImplemented" ELSE "none"]_vars

\* A call that had to merge raised NotImplemented; the call before it had
\* found the cache empty, returned normally and left its positions.
C16_Witness ==
    /\ call.fn = "subexpr" /\ err = "NotImplemented"
    /\ sel[1].vtype = "POS_VALUE"
    /\ sel[1].cgrp # <<>> /\ mem[1] # <<>>
    /\ ~(SeqSet(call.g) \subseteq SeqSet(sel[1].cgrp))

(* ------------------------------ modifiers ------------------------------ *)
\* The pupdate calls of the modifier 1 in the log of a call.
PosUpdates(l) == {i \in DOMAIN l : l[i].node = 1 /\ l[i].what = "pupdate"}

\* C17: a call of the modifier 1 whose child is not position-valued
\* raises NotImplemented without calling pupdate; with a position-valued
\* child it calls pupdate exactly once, with the child's positions.
C17_ModifierChildKind ==
    [][call'.fn = "modifier" =>
           IF sel[sel[1].child].vtype # "POS_VALUE"
           THEN err' = "NotImplemented" /\ PosUpdates(log') = {}
           ELSE /\ err' = "none"
                /\ Cardinality(PosUpdates(log')) = 1
                /\ \A i \in PosUpdates(log') : log'[i].g = mem'[sel[sel[1].child].ptr]]_vars

\* The modifier was called over a group that is not what its child's
\* positions are, and pupdate received the positions.
C17_Witness ==
    /\ call.fn = "modifier" /\ err = "none"
    /\ sel[2].vtype = "POS_VALUE"
    /\ mem[2] # <<>> /\ mem[2] # call.g
    /\ \E i \in PosUpdates(log) : log[i].g = mem[2]
    /\ mem[1] # <<>>

(* ------------------------- command-line help --------------------------- *)
\* C18: a writeHelp call with a context whose output format is not the
\* console format raises NotImplemented and leaves the output file as it
\* was.
C18_HelpOutputFormat ==
    [][(help # NoHelp /\ help'.calls = help.calls + 1
          /\ help'.outputFormat # "eHelpOutputFormat_Console") =>
           help'.err = "NotImplemented" /\ help'.file = help.file]_vars

\* writeHelp was refused for a writer that shows descriptions and has
\* options to list, and the output file is empty.
C18_Witness ==
    /\ help # NoHelp
    /\ help.calls = 1 /\ help.err = "NotImplemented"
    /\ help.outputFormat = "eHelpOutputFormat_Man"
    /\ help.bShowDescriptions /\ help.options.description # ""
    /\ Len(help.options.opts) >= 2
    /\ help.file = <<>>

(* ---------------------------- boolean AND ------------------------------ *)
\* The evaluations of the children in the log of a call of node 1, in
\* order, and the result of each: the atoms of its input that the child
\* accepts.
ChildCalls(l) == SelectSeq(l, LAMBDA e : e.what = "evaluate" /\ e.node # 1)

Result(e) == gmx_ana_index_intersection(e.g, AsGroup(sel[e.node].S))

\* The running intersection once the first k child evaluations are done.
RunningIntersection(g, calls, k) ==
    SelectSeq(g, LAMBDA x : \A j \in 1 .. k : x \in SeqSet(Result(calls[j])))

\* C19: in a call of AND over g the first child evaluated receives g and
\* every later one the intersection of the results of the children
\* evaluated before it.
C19_AndRunningIntersection ==
    (call.fn = "and" /\ err = "none") =>
        \A k \in DOMAIN ChildCalls(log) :
            ChildCalls(log)[k].g = RunningIntersection(call.g, ChildCalls(log), k - 1)

\* The second child of an AND was evaluated over a proper, non-empty part
\* of the group of the call.
C19_Witness ==
    /\ call.fn = "and" /\ err = "none"
    /\ Len(ChildCalls(log)) = 2
    /\ ChildCalls(log)[1].g = call.g
    /\ ChildCalls(log)[2].g # <<>> /\ Len(ChildCalls(log)[2].g) < Len(call.g)
    /\ ChildCalls(log)[2].g = mem[2]

\* The number of child evaluations among the first i entries of the log.
EvaluatedBefore(l, i) == Len(ChildCalls(SubSeq(l, 1, i - 1)))

\* C20: in a call of AND a child after the first evaluated one has
\* scratch reserved and is evaluated only while the running intersection
\* of the results so far is non-empty.
C20_AndShortCircuit ==
    (call.fn = "and" /\ err = "none") =>
        \A i \in DOMAIN log :
            (log[i].node # 1 /\ log[i].what \in {"reserve", "evaluate"}
               /\ EvaluatedBefore(log, i) >= 1) =>
                RunningIntersection(call.g, ChildCalls(log), EvaluatedBefore(log, i)) # <<>>

\* The first child of an AND over a non-empty group accepted nothing, and
\* the second child was neither given scratch nor evaluated.
C20_Witness ==
    /\ call.fn = "and" /\ err = "none"
    /\ call.g # <<>>
    /\ sel[2].next = 3 /\ sel[3].S # {}
    /\ Len(ChildCalls(log)) = 1
    /\ \A i \in DOMAIN log : log[i].node # 3
    /\ mem[1] = <<>>

(* ----------------------------- boolean OR ------------------------------ *)
\* The remaining group once the first k child evaluations are done: the
\* atoms of g that none of their results holds.
Remaining(g, calls, k) ==
    SelectSeq(g, LAMBDA x : \A j \in 1 .. k : x \notin SeqSet(Result(calls[j])))

\* C21: in a call of OR over g the k-th child evaluated receives exactly
\* the atoms of g that are in the result of no child evaluated before it.
C21_OrRemaining ==
    (call.fn = "or" /\ err = "none") =>
        \A k \in DOMAIN ChildCalls(log) :
            ChildCalls(log)[k].g = Remaining(call.g, ChildCalls(log), k - 1)

\* The second child of an OR accepts an atom the first child had taken
\* and was evaluated over what the first child had left.
C21_Witness ==
    /\ call.fn = "or" /\ err = "none"
    /\ Len(ChildCalls(log)) = 2
    /\ ChildCalls(log)[2].g # <<>>
    /\ sel[3].S \cap SeqSet(Result(ChildCalls(log)[1])) # {}
    /\ SeqSet(ChildCalls(log)[2].g) = SeqSet(call.g) \ sel[2].S
    /\ sel[3].S \cap SeqSet(ChildCalls(log)[2].g) # {}

\* C22 as stated: in a call of OR every child, the first included, has
\* scratch reserved and is evaluated only while the remaining group is
\* non-empty; over an empty g nothing is reserved or evaluated.
C22_OrShortCircuit ==
    (call.fn = "or" /\ err = "none") =>
        \A i \in DOMAIN log :
            (log[i].node # 1 /\ log[i].what \in {"reserve", "evaluate"}) =>
                Remaining(call.g, ChildCalls(log), EvaluatedBefore(log, i)) # <<>>

(* ------------------------- SubExpr memoization ------------------------- *)
\* The evaluations of the child 2 in the log of a call.
ChildEvaluations(l) == {i \in DOMAIN l : l[i].node = 2 /\ l[i].what = "evaluate"}

\* C23: a call of the SubExpr-general node 1 within a frame evaluates its
\* child at most once, over g minus the cached group, not at all when the
\* non-empty cached group covers g, and never over an atom that an
\* earlier call of the frame was given.
C23_Memoization ==
    [][(call'.fn = "subexpr" /\ frame' = frame) =>
           /\ Cardinality(ChildEvaluations(log')) <= 1
           /\ (sel[1].cgrp # <<>> /\ SeqSet(call'.g) \subseteq SeqSet(sel[1].cgrp)) =>
                  ChildEvaluations(log') = {}
           /\ \A i \in ChildEvaluations(log') :
                  /\ log'[i].g = gmx_ana_index_difference(call'.g, sel[1].cgrp)
                  /\ SeqSet(log'[i].g) \cap hist.seen = {}]_vars

\* A later call of the frame over a group that overlaps the cached one:
\* the child was evaluated over the new atoms only.
C23_Witness ==
    /\ call.fn = "subexpr" /\ err = "none"
    /\ sel[1].vtype = "INT_VALUE"
    /\ \E i \in ChildEvaluations(log) :
           /\ log[i].g # <<>>
           /\ Len(log[i].g) < Len(call.g)
           /\ SeqSet(log[i].g) \cup SeqSet(log[1].cgrp) = SeqSet(sel[1].cgrp)
           /\ SeqSet(log[i].g) \cap SeqSet(log[1].cgrp) = {}

(* ------------------------------ arithmetic ----------------------------- *)
\* The indices at which operand c was read during the call, in order.
ReadIndices(c) ==
    LET reads == SelectSeq(log, LAMBDA e : e.what = "read" /\ e.node = c)
    IN  [k \in 1 .. Len(reads) |-> reads[k].g[1]]

\* The element count of the arithmetic element 1 after a call over g.
ArithCount(g) == IF "SEL_SINGLEVAL" \in sel[1].flags THEN 1 ELSE Len(g)

\* C24: after a call of the arithmetic element 1 over g its element count
\* is 1 if it is SINGLE_VAL and |g| otherwise; each operand is read once
\* per element, at the index of the element if it is not SINGLE_VAL and at
\* 0 if it is; a negation reads its left operand only; and with operands
\* that are not SINGLE_VAL element i is op(left[i], right[i]), -left[i]
\* for a negation.
C24_ArithmeticElementwise ==
    (call.fn = "arithmetic" /\ err = "none") =>
        LET nn == ArithCount(call.g)
            bArithNeg == sel[1].arith = "ARITH_NEG"
            Single(c) == "SEL_SINGLEVAL" \in sel[c].flags
            Advancing(c) == [k \in 1 .. nn |-> IF Single(c) THEN 0 ELSE k - 1]
        IN  /\ sel[1].nr = nn
            /\ ReadIndices(2) = Advancing(2)
            /\ \A c \in DOMAIN sel \ {1, 2} :
                   ReadIndices(c) = IF bArithNeg THEN <<>> ELSE Advancing(c)
            /\ (~Single(2) /\ (bArithNeg \/ ~Single(3))) =>
                   \A i \in 1 .. nn :
                       i <= Len(call.g) =>
                           mem[1][i] = ArithOp(sel[1].arith, sel[2].f[call.g[i]],
                                               IF bArithNeg THEN <<0, 1>>
                                               ELSE sel[3].f[call.g[i]])

\* A division of per-atom operands over several atoms, the left operand
\* pool-backed and so computed in place.
C24_Witness ==
    /\ call.fn = "arithmetic" /\ err = "none"
    /\ sel[1].arith = "ARITH_DIV" /\ sel[1].flags = {}
    /\ sel[2].flags = {} /\ sel[3].flags = {} /\ sel[2].mempool
    /\ Len(call.g) >= 2 /\ sel[1].nr = Len(call.g)
    /\ ReadIndices(3) = <<0, 1>>
    /\ mem[1][2] = Real(sel[2].f[call.g[2]][1] * sel[3].f[call.g[2]][2],
                        sel[2].f[call.g[2]][2] * sel[3].f[call.g[2]][1])
    /\ mem[1][1] # mem[1][2]

(* ----------------------------- frame flags ----------------------------- *)
\* The elements reachable from the list that starts at n without passing
\* through a reference.
RECURSIVE Reachable(_)
Reachable(n) ==
    IF n = 0 THEN {}
    ELSE {n} \cup Reachable(sel[n].next)
             \cup (IF sel[n].type # "SEL_SUBEXPRREF" THEN Reachable(sel[n].child) ELSE {})

\* C25: after the flag walk at the start of evaluate() every element
\* reachable from the root list without passing through a reference has
\* SEL_EVALFRAME clear, and SEL_INITFRAME set if and only if it is an
\* expression element whose method has an init_frame callback; the walk
\* visits each of these elements once and descends through no reference.
C25_FrameFlags ==
    call.fn = "init_frame_eval" =>
        /\ \A n \in Reachable(call.node) :
               /\ "SEL_EVALFRAME" \notin sel[n].flags
               /\ "SEL_INITFRAME" \in sel[n].flags
                      <=> (sel[n].type = "SEL_EXPRESSION" /\ sel[n].init_frame)
        /\ {log[i].node : i \in DOMAIN log} = Reachable(call.node)
        /\ \A i, j \in DOMAIN log : log[i].node = log[j].node => i = j
        /\ \A i \in DOMAIN log :
               \A j \in DOMAIN log :
                   (sel[log[i].node].type = "SEL_SUBEXPRREF" /\ j = i + 1)
                       => log[j].node # sel[log[i].node].child

\* The walk of a later frame has cleared the SEL_EVALFRAME that the frame
\* before left on the parameter 3 and has set SEL_INITFRAME on it again,
\* and has set none on the modifier 1 although it has an init_frame.
C25_Witness ==
    /\ call.fn = "init_frame_eval" /\ frame = 1
    /\ sel[1].type = "SEL_MODIFIER" /\ sel[1].init_frame
    /\ sel[1].flags = {}
    /\ sel[3].flags = {"SEL_SINGLEVAL", "SEL_INITFRAME"}
    /\ mem[3][1] = 0

(* ------------------------- parameter children -------------------------- *)
\* The entry of the log l at which the evaluation that starts at i returns.
ReturnOf(l, i) ==
    CHOOSE r \in (i + 1) .. Len(l) :
        /\ l[r].node = l[i].node /\ l[r].what = "return"
        /\ \A k \in (i + 1) .. (r - 1) : ~(l[k].node = l[i].node /\ l[k].what = "return")

\* The evaluations of node n within the evaluation that starts at i.
Within(l, i, n) == {j \in EvaluationsOf(l, n) : i < j /\ j < ReturnOf(l, i)}

\* C26: within a frame the parameter 3, which has no SEL_ATOMVAL, is
\* evaluated at most once, with the null group, however often its parent 1
\* is evaluated, and has SEL_EVALFRAME exactly once it has been evaluated;
\* the parameter 2, which has SEL_ATOMVAL, is evaluated once in every
\* evaluation of the parent, over the group of that evaluation, and never
\* has SEL_EVALFRAME.
C26_ParameterProtocol ==
    (sel[1].evaluate \in {"method", "modifier"} /\ err = "none") =>
        /\ Cardinality(EvaluationsOf(log, 3)) <= 1
        /\ \A j \in EvaluationsOf(log, 3) : log[j].g = NULL
        /\ "SEL_EVALFRAME" \in sel[3].flags <=> EvaluationsOf(log, 3) # {}
        /\ \A i \in EvaluationsOf(log, 1) :
               /\ Cardinality(Within(log, i, 2)) = 1
               /\ \A j \in Within(log, i, 2) : log[j].g = log[i].g
        /\ "SEL_EVALFRAME" \notin sel[2].flags

\* A frame in which the parent has been evaluated three times, over
\* different groups: the parameter 3 once, the parameter 2 three times.
C26_Witness ==
    /\ sel[1].evaluate \in {"method", "modifier"} /\ err = "none"
    /\ Cardinality(EvaluationsOf(log, 1)) = 3
    /\ Cardinality({log[i].g : i \in EvaluationsOf(log, 2)}) = 3
    /\ Cardinality(EvaluationsOf(log, 3)) = 1
    /\ "SEL_EVALFRAME" \in sel[3].flags
    /\ frame = 2

(* --------------------------- method callbacks -------------------------- *)
\* The entries of node n in the log l strictly between i and j.
Own(l, i, j) == {k \in (i + 1) .. (j - 1) : l[k].node = l[i].node}

\* C27: every evaluation of a method element does, in this order, the
\* evaluations of its parameters, then init_frame, if SEL_INITFRAME was
\* set (it is clear by the time init_frame is called), then exactly one
\* value callback, the last thing before it returns: pupdate on the
\* positions computed for the group if it has a position calculator,
\* update on the group otherwise.
C27_MethodCallbackOrder ==
    /\ (call.fn # "none" /\ err = "none") =>
           \A i \in DOMAIN log :
               (log[i].what = "evaluate" /\ sel[log[i].node].evaluate = "method") =>
                   LET n == log[i].node
                       r == ReturnOf(log, i)
                       first == \A k \in 1 .. (i - 1) : ~(log[k].node = n /\ log[k].what = "evaluate")
                       inits == {k \in Own(log, i, r) : log[k].what = "init_frame"}
                       values == {k \in Own(log, i, r) : log[k].what \in {"update", "pupdate"}}
                   IN  /\ values = {r - 1}
                       /\ log[r - 1].what = IF sel[n].pc THEN "pupdate" ELSE "update"
                       /\ log[r - 1].g = IF sel[n].pc THEN gmx_ana_poscalc_update(State(NoFail), n, log[i].g)
                                         ELSE log[i].g
                       /\ inits = IF first /\ sel[n].init_frame THEN {r - 2} ELSE {}
                       /\ Own(log, i, r) = inits \cup values
                       /\ "SEL_INITFRAME" \notin sel[n].flags
    /\ (err = "Plugin" /\ call.fail = <<1, "init_frame">> /\ sel[1].evaluate = "method") =>
           /\ "SEL_INITFRAME" \notin sel[1].flags
           /\ log[Len(log) - 1].what = "init_frame" /\ log[Len(log) - 1].node = 1
           /\ \A i \in EvaluationsOf(log, 1), k \in DOMAIN log :
                  (k > i /\ \A j \in EvaluationsOf(log, 1) : j <= i)
                      => log[k].what \notin {"update", "pupdate"} \/ log[k].node # 1

\* The first evaluation in a frame of a method with parameters, an
\* init_frame callback and a position calculator, and a later evaluation
\* of it in the same frame.
C27_Witness ==
    /\ call.fn = "method" /\ err = "none" /\ sel[1].pc /\ sel[1].init_frame
    /\ Cardinality(EvaluationsOf(log, 1)) = 2
    /\ \E i \in DOMAIN log :
           /\ log[i].node = 1 /\ log[i].what = "init_frame"
           /\ log[i + 1].node = 1 /\ log[i + 1].what = "pupdate" /\ log[i + 1].g # <<>>
           /\ \E j, k \in 1 .. (i - 1) :
                  /\ log[j].node = 2 /\ log[j].what = "return"
                  /\ log[k].node = 3 /\ log[k].what = "return"
    /\ log[Len(log) - 1].what = "pupdate" /\ log[Len(log) - 2].node = 2

(* ------------------------------ references ----------------------------- *)
\* The position of atom a in the group g.
PositionIn(g, a) == CHOOSE k \in DOMAIN g : g[k] = a

\* C28: a vector-valued reference evaluated by _gmx_sel_evaluate_subexprref
\* over a group g that the cached group of its target covers ends with |g|
\* values, value i being the target's value at the position of g[i] in the
\* cached group; evaluated with the null group it ends with the target's
\* count and values; the count is also the count of its parameter, if it
\* has one.
C28_ReferenceGather ==
    (call.fn = "ref" /\ err = "none" /\ IsVector(sel[3].vtype)) =>
        LET g == call.g
            cg == sel[1].cgrp
            target == mem[sel[1].ptr]
        IN  /\ (g # NULL /\ SeqSet(g) \subseteq SeqSet(cg)) =>
                   /\ sel[3].nr = Len(g)
                   /\ \A i \in DOMAIN g : mem[3][i] = target[PositionIn(cg, g[i])]
            /\ g = NULL =>
                   /\ sel[3].nr = sel[1].nr
                   /\ \A i \in 1 .. sel[1].nr : mem[3][i] = target[i]
            /\ sel[3].param => sel[3].param_nr = sel[3].nr
            /\ sel[3].nvalptr => sel[3].nval = sel[3].nr

\* The target holds the values of all atoms and the reference, which has
\* a parameter, those of the second and the third.
C28_Witness ==
    /\ call.fn = "ref" /\ err = "none" /\ IsVector(sel[3].vtype) /\ ~ub
    /\ sel[1].evaluate = "subexpr"
    /\ call.g = <<1, 2>> /\ sel[1].cgrp = <<0, 1, 2>>
    /\ mem[sel[1].ptr] = <<0, 10, 20>>
    /\ sel[3].nr = 2 /\ mem[3][1] = 10 /\ mem[3][2] = 20
    /\ sel[3].param /\ sel[3].param_nr = 2
    /\ sel[3].nvalptr /\ sel[3].nval = 2

\* C29: _gmx_sel_evaluate_subexprref_simple evaluates its target exactly
\* if the group is not null: then once, over that group, the target and
\* the target's child storing into the storage of the reference; either
\* way the reference ends with the target's count, which is also stored
\* in its parameter, if it has one, and at the parameter's count pointer,
\* if that has one.
C29_ReferenceSimple ==
    (call.fn = "ref_simple" /\ err = "none") =>
        LET evs == EvaluationsOf(log, 1)
        IN  /\ call.g = NULL => evs = {}
            /\ call.g # NULL =>
                   /\ Cardinality(evs) = 1
                   /\ \A i \in evs : log[i].g = call.g
                   /\ sel[1].ptr = sel[3].ptr /\ sel[2].ptr = sel[3].ptr
                   /\ IsVector(sel[3].vtype) =>
                          \A i \in DOMAIN call.g : mem[3][i] = sel[2].f[call.g[i]]
                   /\ ~IsVector(sel[3].vtype) =>
                          mem[3] = gmx_ana_index_intersection(call.g, AsGroup(sel[2].S))
            /\ sel[3].nr = sel[1].nr
            /\ sel[3].param => sel[3].param_nr = sel[1].nr
            /\ sel[3].nvalptr => sel[3].nval = sel[1].nr

\* The values of two atoms, computed by the method under the target, are
\* in the storage of the reference, and their number is in the parameter.
C29_Witness ==
    /\ call.fn = "ref_simple" /\ err = "none"
    /\ call.g = <<1, 2>>
    /\ mem[3][1] = 10 /\ mem[3][2] = 20
    /\ sel[3].nr = 2 /\ sel[3].param_nr = 2 /\ sel[3].nval = 2 /\ sel[3].nvalptr
    /\ sel[2].ptr = 3

(* -------------------------------- roots -------------------------------- *)
\* The root 2 is as compiled: it has no value and its cached group is the
\* one it had.
RootUntouched ==
    /\ sel[2].nr = 0 /\ sel[2].ptr = 0 /\ sel[2].nalloc = 0 /\ sel[2].flags = {}
    /\ DOMAIN mem = {1}

\* C30 as stated: a call of the root evaluator does not evaluate the
\* child when the cached group of the root is empty and otherwise
\* evaluates it exactly once, over the cached group (the null group when
\* its length is -1), whatever group the root was given, and leaves the
\* root's value alone.
C30_RootEvaluatesChild ==
    (call.node = 2 /\ sel[2].type = "SEL_ROOT" /\ err = "none") =>
        /\ Len(sel[2].cgrp) = 0 => EvaluationsOf(log, 1) = {}
        /\ Len(sel[2].cgrp) # 0 =>
               /\ Cardinality(EvaluationsOf(log, 1)) = 1
               /\ \A i \in EvaluationsOf(log, 1) : log[i].g = sel[2].cgrp
        /\ RootUntouched

\* C30, amended: the child is not evaluated when the cached group of the
\* root is empty or the child has no evaluator; otherwise it is evaluated
\* exactly once, over the cached group (the null group when its length is
\* -1), whatever group the root was given; the root's value is left
\* alone.
C30_RootEvaluatesChildWithEvaluator ==
    (call.node = 2 /\ sel[2].type = "SEL_ROOT" /\ err = "none") =>
        /\ (Len(sel[2].cgrp) = 0 \/ sel[1].evaluate = "none") => EvaluationsOf(log, 1) = {}
        /\ (Len(sel[2].cgrp) # 0 /\ sel[1].evaluate # "none") =>
               /\ Cardinality(EvaluationsOf(log, 1)) = 1
               /\ \A i \in EvaluationsOf(log, 1) : log[i].g = sel[2].cgrp
        /\ RootUntouched

\* The root was given one atom and has evaluated its child over the two
\* atoms of its cached group.
C30_Witness ==
    /\ call.node = 2 /\ sel[2].type = "SEL_ROOT" /\ err = "none"
    /\ call.g = <<0>> /\ sel[2].cgrp = <<1, 2>>
    /\ sel[1].evaluate = "method" /\ mem[1] = <<1, 2>>
    /\ \E i \in DOMAIN log : log[i].node = 1 /\ log[i].what = "update" /\ log[i].g = <<1, 2>>

(* ------------------------ static evaluation group ---------------------- *)
\* C31: in each frame the first call of the static-group evaluator of the
\* subexpression 1 evaluates the child over the group given and records
\* that group as cgrp, and every later call in the frame evaluates nothing
\* and leaves cgrp, the count and the values as they were, whatever group
\* the first call was given.
C31_StaticEvalOncePerFrame ==
    [][(call'.fn = "subexpr_staticeval" /\ frame' = frame /\ err' = "none") =>
           IF hist.first = NULL
           THEN /\ Cardinality(EvaluationsOf(log', 2)) = 1
                /\ \A i \in EvaluationsOf(log', 2) : log'[i].g = call'.g
                /\ sel'[1].cgrp = call'.g
           ELSE /\ EvaluationsOf(log', 2) = {}
                /\ sel'[1].cgrp = sel[1].cgrp /\ sel'[1].nr = sel[1].nr
                /\ mem' = mem]_vars

\* C31 for frames whose first call was given a group that is not empty.
C31_StaticEvalNonEmpty ==
    [][(call'.fn = "subexpr_staticeval" /\ frame' = frame /\ err' = "none"
        /\ (hist.first # NULL => sel[1].cgrp # <<>>)) =>
           IF hist.first = NULL
           THEN /\ Cardinality(EvaluationsOf(log', 2)) = 1
                /\ \A i \in EvaluationsOf(log', 2) : log'[i].g = call'.g
                /\ sel'[1].cgrp = call'.g
           ELSE /\ EvaluationsOf(log', 2) = {}
                /\ sel'[1].cgrp = sel[1].cgrp /\ sel'[1].nr = sel[1].nr
                /\ mem' = mem]_vars

(* --------------------- children without evaluator ---------------------- *)
\* The children of node 1 that have an evaluator, and the entries of the
\* log at which an evaluator that a child does not have was invoked.
WithEvaluator == {c \in Children(1) : sel[c].evaluate # "none"}

NullCalls == {i \in DOMAIN log : log[i].what = "evaluate" /\ sel[log[i].node].evaluate = "none"}

\* C32: a call of AND on a node of which some child has an evaluator
\* starts at the first child that has one, whatever the number of
\* children without evaluator before it, and invokes no evaluator that a
\* child does not have.
C32_AndSkipsElided ==
    (call.fn = "and" /\ WithEvaluator # {}) =>
        /\ NullCalls = {}
        /\ err = "none"
        /\ ChildCalls(log)[1].node = CHOOSE c \in WithEvaluator : \A d \in WithEvaluator : c <= d

\* C32 for nodes of which only the first child may lack an evaluator.
C32_AndSkipsFirst ==
    (call.fn = "and" /\ Children(1) \ {2} \subseteq WithEvaluator /\ WithEvaluator # {}) =>
        /\ NullCalls = {}
        /\ err = "none"
        /\ ChildCalls(log)[1].node = CHOOSE c \in WithEvaluator : \A d \in WithEvaluator : c <= d

\* C33: a call of OR invokes no evaluator that a child does not have: a
\* child without evaluator that is reached contributes its stored value
\* group, so that the call returns g restricted to the atoms that some
\* child accepts.
C33_OrUsesStoredValue ==
    call.fn = "or" =>
        /\ NullCalls = {}
        /\ err = "none"
        /\ mem[1] = SelectSeq(call.g, LAMBDA a : \E c \in Children(1) : a \in sel[c].S)

\* C33 for nodes of which only the first child may lack an evaluator.
C33_OrUsesFirstStoredValue ==
    (call.fn = "or" /\ Children(1) \ {2} \subseteq WithEvaluator) =>
        /\ NullCalls = {}
        /\ err = "none"
        /\ mem[1] = SelectSeq(call.g, LAMBDA a : \E c \in Children(1) : a \in sel[c].S)
(* ------------------------- modifier init_frame ------------------------- *)
\* The init_frame notes of node n in the log l.
InitFramesOf(l, n) == {i \in DOMAIN l : l[i].node = n /\ l[i].what = "init_frame"}

\* C34: in every frame in which a modifier whose method has an init_frame
\* callback is evaluated, the callback is invoked exactly once, inside the
\* modifier's first evaluation of the frame.
C34_ModifierInitFrame ==
    (/\ sel[1].evaluate = "modifier" /\ sel[1].init_frame
     /\ call.fn \notin {"none", "init_frame_eval"} /\ err = "none"
     /\ EvaluationsOf(log, 1) # {}) =>
        LET i == CHOOSE e \in EvaluationsOf(log, 1) : \A d \in EvaluationsOf(log, 1) : e <= d
        IN  /\ Cardinality(InitFramesOf(log, 1)) = 1
            /\ InitFramesOf(log, 1) \subseteq Own(log, i, ReturnOf(log, i))

\* The same frames never hold an init_frame note of the modifier: the flag
\* walk sets SEL_INITFRAME on SEL_EXPRESSION elements only.
C34_ModifierNeverInitFrame ==
    (sel[1].evaluate = "modifier" /\ call.fn # "none") => InitFramesOf(log, 1) = {}

\* For a method element in the place of the modifier the statement holds.
C34_MethodInitFrame ==
    (/\ sel[1].evaluate = "method" /\ sel[1].init_frame /\ Len(sel) = 4
     /\ call.fn \notin {"none", "init_frame_eval"} /\ err = "none"
     /\ EvaluationsOf(log, 1) # {}) =>
        LET i == CHOOSE e \in EvaluationsOf(log, 1) : \A d \in EvaluationsOf(log, 1) : e <= d
        IN  /\ Cardinality(InitFramesOf(log, 1)) = 1
            /\ InitFramesOf(log, 1) \subseteq Own(log, i, ReturnOf(log, i))

(* ----------------------------- scope guards ---------------------------- *)
\* C35: the destructor of an assigner that holds an assignment leaves the
\* element with the storage pointer and capacity it had immediately before
\* assign(), whatever was stored through the redirected pointer and
\* whether the scope is left by return or by an exception, and touches no
\* other element; the destructor of an assigner that never assigned
\* changes nothing.
C35_AssignerRoundTrip ==
    [][(guard.assigner.live /\ ~guard'.assigner.live) =>
           LET n == guard.assigner.sel_
           IN  /\ n # 0 => /\ sel'[n].ptr = guard.at[n].ptr
                           /\ sel'[n].nalloc = guard.at[n].nalloc
                           /\ \A m \in DOMAIN sel \ {n} : sel'[m] = sel[m]
                           /\ sel'[n] = [sel[n] EXCEPT !.ptr = guard.at[n].ptr,
                                                       !.nalloc = guard.at[n].nalloc]
               /\ n = 0 => sel' = sel
               /\ mem' = mem /\ pool' = pool /\ err' = err]_vars

\* The scope of an assigner that redirected element 1, which owns its
\* storage, to the storage of element 2 was left by an exception after a
\* value had been stored through the pointer: element 1 has its own
\* storage and capacity again, and the value is in the storage of 2.
C35_Witness ==
    /\ guard.last = [op |-> "~assigner", n |-> 1, v |-> 0]
    /\ err = "Plugin"
    /\ guard.at[1].ptr = 1 /\ guard.at[1].nalloc = MaxAtom
    /\ sel[1].ptr = 1 /\ sel[1].nalloc = MaxAtom
    /\ mem[2][1] = 7 /\ mem[1][1] = 0

\* C36: reserve() on a reserver that holds a reservation, assign() on an
\* assigner that holds an assignment and assign() between elements of
\* different value types fail and leave every element, the pool and the
\* memory as they were.
C36_MisuseRejected ==
    [][LET l == guard'.last
       IN  (\/ l.op = "reserve" /\ guard.reserver.sel_ # 0
            \/ l.op = "assign" /\ guard.assigner.sel_ # 0
            \/ l.op = "assign" /\ sel[l.n].vtype # sel[l.v].vtype)
               => /\ err' = "Abort"
                  /\ sel' = sel /\ pool' = pool /\ mem' = mem
                  /\ guard'.reserver = guard.reserver
                  /\ guard'.assigner = guard.assigner]_vars

\* A second reserve() was rejected while the reservation of the first and
\* an assignment were in place.
C36_Witness ==
    /\ err = "Abort"
    /\ guard.last.op = "reserve" /\ guard.last.v = MaxAtom
    /\ guard.reserver.sel_ = 3 /\ Len(pool) = 1
    /\ guard.assigner.sel_ = 1 /\ sel[1].ptr = sel[3].ptr /\ sel[1].ptr < 0

(* --------------------------- OR loop invariant ------------------------- *)
\* The tests of the loop condition of the OR: the log holds what the value
\* of the node and tmp were at each.
OrPoints == {i \in DOMAIN log : log[i].what = "result" /\ log[i].node = 1}

\* C37: whenever the OR tests its loop condition, that is after every
\* child evaluation, the indices accumulated in the value of the node and
\* the remaining group tmp are disjoint and together exactly g; the value
\* the OR returns is strictly increasing and within g.
C37_OrLoopInvariant ==
    (call.fn = "or" /\ err = "none") =>
        /\ \A i \in OrPoints :
               /\ log[i + 1].what = "remaining"
               /\ SeqSet(log[i].g) \cap SeqSet(log[i + 1].g) = {}
               /\ SeqSet(log[i].g) \cup SeqSet(log[i + 1].g) = SeqSet(call.g)
               /\ Len(log[i].g) + Len(log[i + 1].g) = Len(call.g)
        /\ \A j \in DOMAIN log :
               (log[j].what = "return" /\ log[j].node \in Children(1)) =>
                   j + 1 \in OrPoints
        /\ IsSorted(mem[1])
        /\ SeqSet(mem[1]) \subseteq SeqSet(call.g)
        /\ SeqSet(mem[1]) = SeqSet(log[Len(log) - 2].g)

\* An OR of two children over all atoms in which both children added to
\* the value and an atom was left over at the end.
C37_Witness ==
    /\ call.fn = "or" /\ err = "none" /\ call.g = AsGroup(Atoms)
    /\ Cardinality(OrPoints) = 2
    /\ \E i, j \in OrPoints :
           /\ i < j
           /\ log[i].g # <<>> /\ Len(log[j].g) > Len(log[i].g)
           /\ log[j + 1].g # <<>>

(* ------------------------------ gather walk ---------------------------- *)
\* C38: when _gmx_sel_evaluate_subexprref extracts the values for a group
\* g that is not null from a target with the general evaluator, the target
\* has just been evaluated over g and every index of g is in its cgrp, so
\* the walk over cgrp.index finds each index of g before the end of cgrp.
C38_GatherInBounds ==
    (/\ call.fn = "ref" /\ call.g # NULL
     /\ sel[1].evaluate = "subexpr" /\ IsVector(sel[3].vtype)) =>
        /\ err = "none"
        /\ SeqSet(call.g) \subseteq SeqSet(sel[1].cgrp)
        /\ \A i \in 1 .. Len(call.g) : PositionIn(sel[1].cgrp, call.g[i]) \in 1 .. Len(sel[1].cgrp)
        /\ \E i \in DOMAIN log :
               /\ log[i].node = 1 /\ log[i].what = "evaluate" /\ log[i].g = call.g
               /\ log[ReturnOf(log, i)].cgrp = sel[1].cgrp
        /\ sel[3].nr = Len(call.g)

\* A walk that has to pass an index of cgrp that is not in g, after the
\* evaluation that precedes the walk has added the first index of g to
\* cgrp.
C38_Witness ==
    /\ call.fn = "ref" /\ err = "none" /\ IsVector(sel[3].vtype)
    /\ sel[1].evaluate = "subexpr"
    /\ call.g = <<0, 2>> /\ sel[1].cgrp = <<0, 1, 2>>
    /\ \E i \in DOMAIN log :
           /\ log[i].node = 1 /\ log[i].what = "evaluate" /\ log[i].cgrp = <<1, 2>>
    /\ sel[3].nr = 2

(* ----------------------------- in-place merge -------------------------- *)
\* The calls of the vector-valued SubExpr-general node 1 that merged: the
\* cached group was not empty and the child was evaluated over gmiss.
Merged ==
    /\ call.fn = "subexpr" /\ err = "none" /\ IsVector(sel[1].vtype)
    /\ log[1].cgrp # <<>>
    /\ EvaluationsOf(log, 2) # {}

\* C39: the merge of the |gmiss| fresh values into the |cgrp| cached ones
\* reads the child's scratch, reserved for |gmiss| values, and the node's
\* storage only inside what they hold, and writes inside the node's
\* storage.
C39_MergeInBounds == Merged => ~ub

\* The reads stay inside the child's scratch when the cached group is no
\* longer than gmiss.
C39_MergeInBoundsSmallCache ==
    (Merged /\ \A i \in EvaluationsOf(log, 2) : Len(log[1].cgrp) <= Len(log[i].g)) => ~ub

====
